---- MODULE Spec2Model ----
(***************************************************************************)
(* State-and-layout subsystem of the LCC control panel: the turnout        *)
(* registry (turnout_manager.c), the panel layout model (panel_layout.c)   *)
(* and the two persistence stores (turnout_storage.c, panel_storage.c).    *)
(***************************************************************************)
EXTENDS Integers, Sequences, FiniteSets, TLC

\* ------------------------------------------------------------------------
\* Bounds of the model
\* ------------------------------------------------------------------------
\* Capacity of the turnout table (150 in ui_common.h), scaled down.
TURNOUT_MAX_COUNT == 2
\* Event ids offered to the registry are 1..MaxEvent.
MaxEvent == 2
\* The microsecond clock runs from TickUs to MaxTicks * TickUs.
MaxTicks == 3

\* Capacities of the layout (50, 20 and 100 in panel_layout.h), scaled down.
PANEL_MAX_ITEMS == 2
PANEL_MAX_ENDPOINTS == 2
PANEL_MAX_TRACKS == 2
\* Turnout ids offered to the layout are 0..MaxItemId.
MaxItemId == 1
\* Grid cells offered to the layout are (0..MaxGridX) x (0..MaxGridY).
MaxGridX == 0
MaxGridY == 0
\* add_endpoint is exercised while next_endpoint_id is below this.
MaxEndpointId == 3
RtMaxItems == 1
RtMaxEndpoints == 1
RtMaxTracks == 1
MaxBlocks == 2
MaxAsync == 1
MaxLoopTicks == 4
ResolveMaxGridX == 1

\* ------------------------------------------------------------------------
\* Program constants
\* ------------------------------------------------------------------------
TURNOUT_STATE_UNKNOWN == 0
TURNOUT_STATE_NORMAL == 1
TURNOUT_STATE_REVERSE == 2
TURNOUT_STATE_STALE == 3
\* esp_timer_get_time() counts microseconds; one clock step of the model.
TickUs == 1000
DEFAULT_QUERY_PACE_MS == 100
SD_OPEN_MAX_RETRIES == 3
PANEL_GRID_SIZE == 20
LOCAL_NORMAL_DX == 60
LOCAL_NORMAL_DY == 0
LOCAL_REVERSE_DX == 40
LOCAL_REVERSE_DY == -40
BUILDER_CANVAS_WIDTH == 748
BUILDER_CANVAS_HEIGHT == 382
PANEL_POINT_ENTRY == 0
PANEL_POINT_NORMAL == 1
PANEL_POINT_REVERSE == 2
PANEL_REF_TURNOUT == 0
PANEL_REF_ENDPOINT == 1

Events == 1..MaxEvent
\* Name arguments of add (the empty string selects the default name) and
\* of rename.
AddNames == {"", "A"}
RenameNames == {"A"}
\* Timeouts (ms) passed to the stale sweep.
Timeouts == {0, 1}
\* The LCC executor thread and the LVGL/UI thread.
Threads == {"net", "ui"}
Slots == 0..(TURNOUT_MAX_COUNT - 1)

\* snprintf(t->name, ..., "Turnout %d", idx + 1)
DefaultName(n) == <<"Turnout 1", "Turnout 2", "Turnout 3", "Turnout 4", "Turnout 5">>[n]

\* memset(t, 0, sizeof(turnout_t))
ZeroTurnout ==
    [id |-> 0, name |-> "", event_normal |-> 0, event_reverse |-> 0,
     state |-> TURNOUT_STATE_UNKNOWN, last_update_us |-> 0,
     command_pending |-> FALSE, user_order |-> 0]

VARIABLES
    s_turnouts,        \* turnout_manager.c: static turnout_t s_turnouts[]
    s_count,           \* turnout_manager.c: static size_t s_count
    s_mutex,           \* holder of s_mutex: "free" or a thread
    s_state_callback,  \* TRUE when a state callback is registered
    now_us,            \* esp_timer_get_time()
    pc,                \* per thread: position inside a registry call
    loc                \* per thread: locals of the call in progress

regVars == <<s_turnouts, s_count, s_mutex, s_state_callback, now_us, pc, loc>>

VARIABLES
    s_layout,          \* panel_layout.c: static panel_layout_t s_layout
    layout_log         \* what the last layout mutation logged (ESP_LOGI)

layoutVars == <<s_layout, layout_log>>

VARIABLES
    fs,                \* the SD card: the file at each path
    sloc               \* locals of the storage save in progress

storeVars == <<fs, sloc>>

VARIABLES
    geo                \* the points panel_geometry_get_points returned last

VARIABLES
    s_discovery_mode,      \* lcc_node.cpp: static bool s_discovery_mode
    s_discovery_callback,  \* TRUE when a discovery callback is registered
    rx,                    \* the event message the executor is handling
    lv_async,              \* calls queued with lv_async_call, oldest first
    layout_access,         \* the thread that touched the layout last
    s_discover_list        \* ui_add_turnout.c: the event ids listed for discovery

nodeVars == <<s_discovery_mode, s_discovery_callback, rx, lv_async,
              layout_access, s_discover_list>>

VARIABLES
    br,                    \* locals of builder_refresh_canvas in progress
    qa,                    \* the main task inside lcc_node_query_all_turnout_states
    ml                     \* the main loop of app_main

callVars == <<br, qa, ml>>

VARIABLES
    s_last_hit,            \* panel_layout.c: static size_t s_last_hit
    resolved               \* what panel_layout_resolve_track returned last

resolveVars == <<s_last_hit, resolved>>

VARIABLES
    am,                    \* app_main: the step it is at, the stores loaded
    s_status,              \* lcc_node.cpp: static lcc_status_t s_status
    lcc_exec,              \* TRUE when the executor thread has been started
    ui_created             \* TRUE when ui_init has created the UI

bootVars == <<am, s_status, lcc_exec, ui_created>>

appVars == <<geo, nodeVars, callVars, resolveVars, bootVars>>

vars == <<regVars, layoutVars, storeVars, appVars>>

\* No geometry computed yet.
NoPoints == [valid |-> FALSE, entry |-> <<0, 0>>, normal |-> <<0, 0>>,
             reverse |-> <<0, 0>>]

\* No message in the handler.  Of a message being handled: its type, the
\* producer state it carries, its event id, the index route_event looked
\* up, and the discovery callbacks invoked for it so far.
NoRx == [mti |-> "none", state |-> "none", event |-> 0, idx |-> -1,
         disc |-> << >>]

\* static bool s_discovery_mode = false; the callback pointer is NULL.
InitNode ==
    /\ s_discovery_mode = FALSE
    /\ s_discovery_callback = FALSE
    /\ rx = NoRx
    /\ lv_async = << >>
    /\ layout_access = "none"
    /\ s_discover_list = {}

\* Locals of the name snapshot of builder_refresh_canvas: whether the
\* pointer into the table is in scope, the count returned with it, the item
\* index, and for every item read so far what was found and whether the
\* mutex was held at the read.
NoBr == [turnouts |-> FALSE, turnout_count |-> 0, i |-> 0, reads |-> << >>]

\* The main task outside the query: of a query in progress, the position,
\* the count read at entry, the pace, the loop index, the turnout copied by
\* get_by_index, the messages sent and delays taken in order, and the
\* turnouts (as their pairs of ids) registered since the call began.
NoQa == [pc |-> "idle", count |-> 0, pace_ms |-> 0, i |-> 0, t |-> ZeroTurnout,
         out |-> << >>, stayed |-> {}]

\* The main loop before its first iteration: its position, last_refresh and
\* the stale timeout lcc_node_get_stale_timeout_sec returns, in loop
\* periods (one clock tick is one pass of the loop's vTaskDelay).
NoMl == [pc |-> "top", last_refresh |-> TickUs, stale_timeout |-> 0]

InitCalls ==
    /\ br = NoBr
    /\ qa = NoQa
    /\ ml = NoMl

\* Nothing resolved yet.  Of a resolution: the track given, the value
\* returned, and for each end whether it was resolved and the coordinates
\* written for it.
NoResolved ==
    [valid |-> FALSE,
     track |-> [from |-> [type |-> 0, id |-> 0, point |-> 0],
                to |-> [type |-> 0, id |-> 0, point |-> 0]],
     ret |-> FALSE,
     from_ok |-> FALSE, from_xy |-> <<0, 0>>,
     to_ok |-> FALSE, to_xy |-> <<0, 0>>]

\* static size_t s_last_hit = 0;
InitResolve ==
    /\ s_last_hit = 0
    /\ resolved = NoResolved

\* The device is up: app_main is in its main loop, the node runs and the
\* UI exists.
InitBooted ==
    /\ am = [pc |-> "main_loop", loaded |-> {"roster", "layout"}]
    /\ s_status = "RUNNING"
    /\ lcc_exec = TRUE
    /\ ui_created = TRUE

InitApp ==
    /\ geo = NoPoints
    /\ InitNode
    /\ InitCalls
    /\ InitResolve
    /\ InitBooted

TURNOUT_STORAGE_PATH == "/sdcard/turnouts.json"
PANEL_STORAGE_PATH == "/sdcard/panel.json"
\* const char *tmp_path = PANEL_STORAGE_PATH ".tmp";
tmp_path == "/sdcard/panel.json.tmp"
TURNOUT_JMRI_IMPORT_PATH == "/sdcard/roster.xml"
Paths == {TURNOUT_STORAGE_PATH, PANEL_STORAGE_PATH, tmp_path,
          TURNOUT_JMRI_IMPORT_PATH}

\* A path with no file.  A file holds the bytes written so far: data is the
\* document being written (the empty sequence for no bytes) and complete
\* tells whether all of its bytes are there.
NoFile == [exists |-> FALSE, complete |-> FALSE, data |-> << >>]

\* fopen(path, "w") succeeded: the file exists with length zero.
EmptyFile == [exists |-> TRUE, complete |-> FALSE, data |-> << >>]

\* Locals of a save: the serialized document, the open attempt counter, the
\* value returned, and the file the target path held when the call began.
NoSloc == [op |-> "none", json_str |-> << >>, attempt |-> 0, ret |-> "none",
           prev |-> NoFile]

InitStore ==
    /\ fs = [p \in Paths |-> NoFile]
    /\ sloc = NoSloc

\* Log line of a call that does not cascade.
NoCascadeLog == [op |-> "none", removed_tracks |-> 0]

\* Locals of a call: its arguments, the loop index, the clock value read at
\* entry, and the callbacks the call has invoked so far.
NoLoc == [op |-> "none", event_id |-> 0, i |-> 0, state |-> 0, now |-> 0,
          timeout_ms |-> 0, cbs |-> <<>>]

\* memset(layout, 0, sizeof(panel_layout_t)): the arrays are kept as the
\* sequences of their first item_count / endpoint_count / track_count
\* elements (C index i is element i + 1).
EmptyLayout ==
    [items |-> << >>, endpoints |-> << >>, next_endpoint_id |-> 0, tracks |-> << >>]

InitRegistry ==
    /\ s_turnouts = [k \in Slots |-> ZeroTurnout]
    /\ s_count = 0
    /\ s_mutex = "free"
    /\ s_state_callback = FALSE
    /\ now_us = TickUs
    /\ pc = [t \in Threads |-> "idle"]
    /\ loc = [t \in Threads |-> NoLoc]

\* ------------------------------------------------------------------------
\* turnout_manager_add
\* ------------------------------------------------------------------------
\* The duplicate scan of turnout_manager_add (lines 124-131).
AddIsDuplicate(tab, cnt, event_normal, event_reverse) ==
    \E i \in 0..(cnt - 1) :
        \/ tab[i].event_normal = event_normal
        \/ tab[i].event_reverse = event_reverse

\* A new slot that is stamped with a nonzero time.
NewTurnout_Stamped(idx, event_normal, event_reverse, name) ==
    [ZeroTurnout EXCEPT
        !.name = IF name # "" THEN name ELSE DefaultName(idx + 1),
        !.event_normal = event_normal,
        !.event_reverse = event_reverse,
        !.state = TURNOUT_STATE_UNKNOWN,
        !.last_update_us = TickUs,
        !.command_pending = FALSE,
        !.user_order = idx]

\* The slot written by turnout_manager_add (lines 133-148); the id field is
\* left as memset wrote it.
NewTurnout(idx, event_normal, event_reverse, name) ==
    [ZeroTurnout EXCEPT
        !.name = IF name # "" THEN name ELSE DefaultName(idx + 1),
        !.event_normal = event_normal,
        !.event_reverse = event_reverse,
        !.state = TURNOUT_STATE_UNKNOWN,
        !.last_update_us = 0,
        !.command_pending = FALSE,
        !.user_order = idx]

\* The value turnout_manager_add returns (lines 117-154): -1 past capacity
\* or on a hit of the duplicate scan, else the index of the new slot.
turnout_manager_add_ret(event_normal, event_reverse) ==
    IF s_count >= TURNOUT_MAX_COUNT
       \/ AddIsDuplicate(s_turnouts, s_count, event_normal, event_reverse)
    THEN -1
    ELSE s_count

turnout_manager_add(t, event_normal, event_reverse, name) ==
    /\ pc[t] = "idle" /\ s_mutex = "free"
    /\ IF s_count >= TURNOUT_MAX_COUNT
          \/ AddIsDuplicate(s_turnouts, s_count, event_normal, event_reverse)
       THEN UNCHANGED <<s_turnouts, s_count>>
       ELSE /\ s_turnouts' = [s_turnouts EXCEPT ![s_count] =
                                NewTurnout(s_count, event_normal, event_reverse, name)]
            /\ s_count' = s_count + 1
    /\ s_mutex' = "free"
    /\ UNCHANGED <<s_state_callback, now_us, pc, loc>>

\* ------------------------------------------------------------------------
\* turnout_manager_remove / rename / swap / set_pending
\* ------------------------------------------------------------------------
\* A compaction that leaves the vacated last slot as it was.
RemoveShift_NoClear(tab, cnt, index) ==
    [k \in Slots |->
        IF k < index THEN tab[k]
        ELSE IF k < cnt - 1 THEN tab[k + 1]
        ELSE tab[k]]

\* Shift-down compaction and clearing of the last slot (lines 168-175).
RemoveShift(tab, cnt, index) ==
    [k \in Slots |->
        IF k < index THEN tab[k]
        ELSE IF k < cnt - 1 THEN tab[k + 1]
        ELSE IF k = cnt - 1 THEN ZeroTurnout
        ELSE tab[k]]

\* The value turnout_manager_remove returns (lines 161-164, 178).
turnout_manager_remove_ret(index) ==
    IF index >= s_count THEN "ESP_ERR_INVALID_ARG" ELSE "ESP_OK"

\* A remove that returns from the index test without giving the mutex.
turnout_manager_remove_HeldOnInvalid(t, index) ==
    /\ pc[t] = "idle" /\ s_mutex = "free"
    /\ IF index >= s_count
       THEN /\ s_mutex' = t
            /\ UNCHANGED <<s_turnouts, s_count>>
       ELSE /\ s_turnouts' = RemoveShift(s_turnouts, s_count, index)
            /\ s_count' = s_count - 1
            /\ s_mutex' = "free"
    /\ UNCHANGED <<s_state_callback, now_us, pc, loc>>

turnout_manager_remove(t, index) ==
    /\ pc[t] = "idle" /\ s_mutex = "free"
    /\ IF index >= s_count
       THEN UNCHANGED <<s_turnouts, s_count>>
       ELSE /\ s_turnouts' = RemoveShift(s_turnouts, s_count, index)
            /\ s_count' = s_count - 1
    /\ s_mutex' = "free"
    /\ UNCHANGED <<s_state_callback, now_us, pc, loc>>

turnout_manager_rename(t, index, name) ==
    /\ pc[t] = "idle" /\ s_mutex = "free"
    /\ IF index >= s_count
       THEN UNCHANGED s_turnouts
       ELSE s_turnouts' = [s_turnouts EXCEPT ![index].name = name]
    /\ s_mutex' = "free"
    /\ UNCHANGED <<s_count, s_state_callback, now_us, pc, loc>>

turnout_manager_swap(t, index_a, index_b) ==
    /\ pc[t] = "idle" /\ s_mutex = "free"
    /\ IF index_a >= s_count \/ index_b >= s_count
       THEN UNCHANGED s_turnouts
       ELSE s_turnouts' = [s_turnouts EXCEPT ![index_a] = s_turnouts[index_b],
                                             ![index_b] = s_turnouts[index_a]]
    /\ s_mutex' = "free"
    /\ UNCHANGED <<s_count, s_state_callback, now_us, pc, loc>>

\* A set_pending that writes the slot without testing the index.
turnout_manager_set_pending_NoBound(t, index, pending) ==
    /\ pc[t] = "idle" /\ s_mutex = "free"
    /\ s_turnouts' = [s_turnouts EXCEPT ![index].command_pending = pending]
    /\ s_mutex' = "free"
    /\ UNCHANGED <<s_count, s_state_callback, now_us, pc, loc>>

\* turnout_manager_set_pending (lines 255-262).
turnout_manager_set_pending(t, index, pending) ==
    /\ pc[t] = "idle" /\ s_mutex = "free"
    /\ IF index < s_count
       THEN s_turnouts' = [s_turnouts EXCEPT ![index].command_pending = pending]
       ELSE UNCHANGED s_turnouts
    /\ s_mutex' = "free"
    /\ UNCHANGED <<s_count, s_state_callback, now_us, pc, loc>>

\* ------------------------------------------------------------------------
\* turnout_manager_set_state_callback, the clock, return to the caller
\* ------------------------------------------------------------------------
turnout_manager_set_state_callback ==
    /\ s_state_callback = FALSE
    /\ s_state_callback' = TRUE
    /\ UNCHANGED <<s_turnouts, s_count, s_mutex, now_us, pc, loc>>

Tick ==
    /\ now_us < MaxTicks * TickUs
    /\ now_us' = now_us + TickUs
    /\ UNCHANGED <<s_turnouts, s_count, s_mutex, s_state_callback, pc, loc>>

\* The call returns; its locals go out of scope.
op_return(t) ==
    /\ pc[t] = "ret"
    /\ pc' = [pc EXCEPT ![t] = "idle"]
    /\ loc' = [loc EXCEPT ![t] = NoLoc]
    /\ UNCHANGED <<s_turnouts, s_count, s_mutex, s_state_callback, now_us>>

\* ------------------------------------------------------------------------
\* turnout_manager_set_state_by_event
\* ------------------------------------------------------------------------
\* The indexes below the count whose normal or reverse id is event_id.
MatchingIndexes(tab, cnt, event_id) ==
    {i \in 0..(cnt - 1) :
        tab[i].event_normal = event_id \/ tab[i].event_reverse = event_id}

\* First index hit by the linear scan, -1 when the loop runs to the end.
FirstMatch(tab, cnt, event_id) ==
    IF MatchingIndexes(tab, cnt, event_id) = {} THEN -1
    ELSE CHOOSE i \in MatchingIndexes(tab, cnt, event_id) :
            \A j \in MatchingIndexes(tab, cnt, event_id) : i <= j

\* Entry: the caller reaches xSemaphoreTake (line 219).
ssbe_call(t, event_id) ==
    /\ pc[t] = "idle"
    /\ pc' = [pc EXCEPT ![t] = "ssbe_take"]
    /\ loc' = [loc EXCEPT ![t] = [NoLoc EXCEPT !.op = "ssbe", !.event_id = event_id,
                                               !.i = -1]]
    /\ UNCHANGED <<s_turnouts, s_count, s_mutex, s_state_callback, now_us>>

\* A scan that writes the state of the other id.
StateForMatch_Swapped(tu, event_id) ==
    IF event_id = tu.event_normal THEN TURNOUT_STATE_REVERSE
    ELSE TURNOUT_STATE_NORMAL

\* State written for the slot the scan stops at (lines 224-248): the
\* event_normal test comes first.
StateForMatch(tu, event_id) ==
    IF event_id = tu.event_normal THEN TURNOUT_STATE_NORMAL
    ELSE TURNOUT_STATE_REVERSE

\* Holder of the mutex once the scan has matched: xSemaphoreGive at lines
\* 230 and 243 precedes the callback.
MutexAtStateCallback(t) == "free"

\* The critical section (lines 219-251): scan, update the first match,
\* give the mutex.
ssbe_scan(t) ==
    /\ pc[t] = "ssbe_take" /\ s_mutex = "free"
    /\ LET e == loc[t].event_id
           i == FirstMatch(s_turnouts, s_count, e)
       IN IF i = -1
          THEN /\ s_mutex' = "free"
               /\ pc' = [pc EXCEPT ![t] = "ret"]
               /\ UNCHANGED <<s_turnouts, loc>>
          ELSE /\ s_turnouts' = [s_turnouts EXCEPT
                     ![i].state = StateForMatch(s_turnouts[i], e),
                     ![i].last_update_us = now_us,
                     ![i].command_pending = FALSE]
               /\ s_mutex' = MutexAtStateCallback(t)
               /\ loc' = [loc EXCEPT ![t].i = i,
                                      ![t].state = StateForMatch(s_turnouts[i], e)]
               /\ pc' = [pc EXCEPT ![t] = "ssbe_cb"]
    /\ UNCHANGED <<s_count, s_state_callback, now_us>>

\* One invocation of the registered callback, as the caller sees it: the
\* arguments passed and whether the caller holds the mutex meanwhile.
CallbackRecord(t, index, state) ==
    [index |-> index, state |-> state, held |-> (s_mutex = t)]

\* if (s_state_callback) s_state_callback((int)i, <state>); return;
\* (lines 231-234 and 244-247).
ssbe_cb(t) ==
    /\ pc[t] \in {"ssbe_cb", "ssbe_cb_out"}
    /\ loc' = [loc EXCEPT ![t].cbs =
          IF s_state_callback
          THEN Append(@, CallbackRecord(t, loc[t].i, loc[t].state))
          ELSE @]
    /\ pc' = [pc EXCEPT ![t] = "ret"]
    /\ UNCHANGED <<s_turnouts, s_count, s_mutex, s_state_callback, now_us>>

\* ------------------------------------------------------------------------
\* turnout_manager_check_stale
\* ------------------------------------------------------------------------
\* Entry (lines 282-287): timeout 0 returns at once; otherwise the clock is
\* read and the caller reaches xSemaphoreTake.
cs_call(t, timeout_ms) ==
    /\ pc[t] = "idle"
    /\ pc' = [pc EXCEPT ![t] = IF timeout_ms = 0 THEN "ret" ELSE "cs_take"]
    /\ loc' = [loc EXCEPT ![t] =
          [NoLoc EXCEPT !.op = "cs", !.now = now_us, !.timeout_ms = timeout_ms]]
    /\ UNCHANGED <<s_turnouts, s_count, s_mutex, s_state_callback, now_us>>

\* xSemaphoreTake at line 287 (first entry) and at line 305 (after a
\* callback, followed by the loop's i++).
cs_take(t) ==
    /\ pc[t] \in {"cs_take", "cs_retake"} /\ s_mutex = "free"
    /\ s_mutex' = t
    /\ loc' = [loc EXCEPT ![t].i = IF pc[t] = "cs_retake" THEN @ + 1 ELSE 0]
    /\ pc' = [pc EXCEPT ![t] = "cs_loop"]
    /\ UNCHANGED <<s_turnouts, s_count, s_state_callback, now_us>>

\* A test that already holds at an age equal to the timeout.
IsStaleNow_AtTimeout(tu, now, timeout_ms) ==
    /\ tu.last_update_us > 0
    /\ tu.state \in {TURNOUT_STATE_NORMAL, TURNOUT_STATE_REVERSE}
    /\ (now - tu.last_update_us) >= timeout_ms * 1000

\* The test of lines 293-296 on one slot.
IsStaleNow(tu, now, timeout_ms) ==
    /\ tu.last_update_us > 0
    /\ tu.state \in {TURNOUT_STATE_NORMAL, TURNOUT_STATE_REVERSE}
    /\ (now - tu.last_update_us) > timeout_ms * 1000

\* A sweep that invokes the callback without giving the mutex first.
MutexAtStaleCallback_Held(t) == t

\* Holder of the mutex while the sweep's callback runs: xSemaphoreGive at
\* line 303 precedes the callback.
MutexAtStaleCallback(t) == "free"

\* One iteration of the loop of lines 289-309, or the exit at line 311.
cs_loop(t) ==
    /\ pc[t] = "cs_loop" /\ s_mutex = t
    /\ LET i == loc[t].i IN
       IF i >= s_count
       THEN /\ s_mutex' = "free"
            /\ pc' = [pc EXCEPT ![t] = "ret"]
            /\ UNCHANGED <<s_turnouts, loc>>
       ELSE IF IsStaleNow(s_turnouts[i], loc[t].now, loc[t].timeout_ms)
       THEN /\ s_turnouts' = [s_turnouts EXCEPT ![i].state = TURNOUT_STATE_STALE]
            /\ IF s_state_callback
               THEN /\ s_mutex' = MutexAtStaleCallback(t)
                    /\ pc' = [pc EXCEPT ![t] = "cs_cb"]
                    /\ UNCHANGED loc
               ELSE /\ loc' = [loc EXCEPT ![t].i = i + 1]
                    /\ UNCHANGED <<s_mutex, pc>>
       ELSE /\ loc' = [loc EXCEPT ![t].i = i + 1]
            /\ UNCHANGED <<s_turnouts, s_mutex, pc>>
    /\ UNCHANGED <<s_count, s_state_callback, now_us>>

\* s_state_callback((int)i, TURNOUT_STATE_STALE) at line 304.
cs_cb(t) ==
    /\ pc[t] \in {"cs_cb", "cs_cb_out"}
    /\ loc' = [loc EXCEPT ![t].cbs =
          Append(@, CallbackRecord(t, loc[t].i, TURNOUT_STATE_STALE))]
    /\ pc' = [pc EXCEPT ![t] = "cs_retake"]
    /\ UNCHANGED <<s_turnouts, s_count, s_mutex, s_state_callback, now_us>>

\* ------------------------------------------------------------------------
\* The registry as the two threads drive it
\* ------------------------------------------------------------------------
InitLayoutVars == s_layout = EmptyLayout /\ layout_log = NoCascadeLog

Init == InitRegistry /\ InitLayoutVars /\ InitStore /\ InitApp

RegNext ==
    \/ \E en \in Events, er \in Events, n \in AddNames :
          turnout_manager_add("ui", en, er, n)
    \/ \E i \in Slots : turnout_manager_remove("ui", i)
    \/ \E i \in Slots, n \in RenameNames : turnout_manager_rename("ui", i, n)
    \/ \E a \in Slots, b \in Slots : turnout_manager_swap("ui", a, b)
    \/ \E i \in Slots, p \in BOOLEAN : turnout_manager_set_pending("ui", i, p)
    \/ turnout_manager_set_state_callback
    \/ Tick
    \/ \E e \in Events : ssbe_call("net", e)
    \/ ssbe_scan("net")
    \/ ssbe_cb("net")
    \/ \E tm \in Timeouts : cs_call("net", tm)
    \/ cs_take("net")
    \/ cs_loop("net")
    \/ cs_cb("net")
    \/ op_return("net")

Next == RegNext /\ UNCHANGED <<layoutVars, storeVars, appVars>>

Spec == Init /\ [][Next]_vars

\* ------------------------------------------------------------------------
\* panel_layout.c: mutation operations
\* ------------------------------------------------------------------------
ItemIds == 0..MaxItemId
GridXs == 0..MaxGridX
GridYs == 0..MaxGridY
PointTypes == {PANEL_POINT_ENTRY, PANEL_POINT_NORMAL, PANEL_POINT_REVERSE}

item_count == Len(s_layout.items)
endpoint_count == Len(s_layout.endpoints)
track_count == Len(s_layout.tracks)

\* Shift-down removal of C index `index` from an array kept as a sequence.
ShiftDown(arr, index) ==
    [k \in 1..(Len(arr) - 1) |-> IF k < index + 1 THEN arr[k] ELSE arr[k + 1]]

\* The values the three add operations return: -1 or false when the
\* collection is full (lines 164-167, 187-191, 209-212), else the new index
\* or true.
panel_layout_add_item_ret ==
    IF item_count >= PANEL_MAX_ITEMS THEN -1 ELSE item_count

panel_layout_add_endpoint_ret == ~ (endpoint_count >= PANEL_MAX_ENDPOINTS)

panel_layout_add_track_ret == ~ (track_count >= PANEL_MAX_TRACKS)

panel_layout_add_item(turnout_id, grid_x, grid_y) ==
    /\ IF item_count >= PANEL_MAX_ITEMS
       THEN UNCHANGED s_layout
       ELSE s_layout' = [s_layout EXCEPT !.items = Append(@,
               [turnout_id |-> turnout_id, grid_x |-> grid_x, grid_y |-> grid_y,
                rotation |-> 0, mirrored |-> FALSE])]
    /\ layout_log' = NoCascadeLog
    /\ UNCHANGED regVars

\* An add_endpoint that draws the next id before it tests the capacity.
panel_layout_add_endpoint_IdFirst(grid_x, grid_y) ==
    /\ s_layout.next_endpoint_id < MaxEndpointId
    /\ IF endpoint_count >= PANEL_MAX_ENDPOINTS
       THEN s_layout' = [s_layout EXCEPT !.next_endpoint_id = @ + 1]
       ELSE s_layout' = [s_layout EXCEPT
               !.endpoints = Append(@, [id |-> s_layout.next_endpoint_id,
                                        grid_x |-> grid_x, grid_y |-> grid_y]),
               !.next_endpoint_id = @ + 1]
    /\ layout_log' = NoCascadeLog
    /\ UNCHANGED regVars

panel_layout_add_endpoint(grid_x, grid_y) ==
    /\ s_layout.next_endpoint_id < MaxEndpointId
    /\ IF endpoint_count >= PANEL_MAX_ENDPOINTS
       THEN UNCHANGED s_layout
       ELSE s_layout' = [s_layout EXCEPT
               !.endpoints = Append(@, [id |-> s_layout.next_endpoint_id,
                                        grid_x |-> grid_x, grid_y |-> grid_y]),
               !.next_endpoint_id = @ + 1]
    /\ layout_log' = NoCascadeLog
    /\ UNCHANGED regVars

panel_layout_add_track(track) ==
    /\ IF track_count >= PANEL_MAX_TRACKS
       THEN UNCHANGED s_layout
       ELSE s_layout' = [s_layout EXCEPT !.tracks = Append(@, track)]
    /\ layout_log' = NoCascadeLog
    /\ UNCHANGED regVars

\* A cascade that tests only the track's from end.
TrackRefs_FromOnly(track, type, id) ==
    track.from.type = type /\ track.from.id = id

\* A cascade that compares the ids and not the reference types.
TrackRefs_AnyType(track, type, id) ==
    track.from.id = id \/ track.to.id = id

\* The test of the cascade loops (lines 236-240 and 267-270): the track has
\* an end of the given type and id.
TrackRefs(track, type, id) ==
    \/ (track.from.type = type /\ track.from.id = id)
    \/ (track.to.type = type /\ track.to.id = id)

\* The compaction of the cascade loops: the tracks that do not reference
\* (type, id), in their order.
RECURSIVE CascadeTracks(_, _, _)
CascadeTracks(tracks, type, id) ==
    IF tracks = << >> THEN << >>
    ELSE IF TrackRefs(Head(tracks), type, id)
         THEN CascadeTracks(Tail(tracks), type, id)
         ELSE << Head(tracks) >> \o CascadeTracks(Tail(tracks), type, id)

\* The line logged by remove_item / remove_endpoint (lines 245-249, 276-280).
CascadeLog(op, tracks_before, tracks_after) ==
    [op |-> op, removed_tracks |-> Len(tracks_before) - Len(tracks_after)]

panel_layout_remove_item(index) ==
    /\ IF index >= item_count
       THEN UNCHANGED layoutVars
       ELSE /\ s_layout' = [s_layout EXCEPT
                  !.items = ShiftDown(@, index),
                  !.tracks = CascadeTracks(@, PANEL_REF_TURNOUT,
                                           s_layout.items[index + 1].turnout_id)]
            /\ layout_log' = CascadeLog("remove_item", s_layout.tracks, s_layout'.tracks)
    /\ UNCHANGED regVars

\* A remove_endpoint that hands the removed id back to the counter.
panel_layout_remove_endpoint_Recycle(index) ==
    /\ IF index >= endpoint_count
       THEN UNCHANGED layoutVars
       ELSE /\ s_layout' = [s_layout EXCEPT
                  !.endpoints = ShiftDown(@, index),
                  !.next_endpoint_id = s_layout.endpoints[index + 1].id,
                  !.tracks = CascadeTracks(@, PANEL_REF_ENDPOINT,
                                           s_layout.endpoints[index + 1].id)]
            /\ layout_log' = CascadeLog("remove_endpoint", s_layout.tracks, s_layout'.tracks)
    /\ UNCHANGED regVars

\* panel_layout_remove_endpoint (lines 252-281).
panel_layout_remove_endpoint(index) ==
    /\ IF index >= endpoint_count
       THEN UNCHANGED layoutVars
       ELSE /\ s_layout' = [s_layout EXCEPT
                  !.endpoints = ShiftDown(@, index),
                  !.tracks = CascadeTracks(@, PANEL_REF_ENDPOINT,
                                           s_layout.endpoints[index + 1].id)]
            /\ layout_log' = CascadeLog("remove_endpoint", s_layout.tracks, s_layout'.tracks)
    /\ UNCHANGED regVars

panel_layout_remove_track(index) ==
    /\ IF index >= track_count
       THEN UNCHANGED s_layout
       ELSE s_layout' = [s_layout EXCEPT !.tracks = ShiftDown(@, index)]
    /\ layout_log' = NoCascadeLog
    /\ UNCHANGED regVars

\* The references the builder can hand to add_track: a connection point of
\* a placed turnout, or a placed endpoint (ui_panel_builder.c:515-531,
\* 641-656, 712-723).
PresentRefs ==
    {[type |-> PANEL_REF_TURNOUT, id |-> s_layout.items[k].turnout_id, point |-> p] :
        k \in 1..item_count, p \in PointTypes}
    \cup
    {[type |-> PANEL_REF_ENDPOINT, id |-> s_layout.endpoints[k].id,
      point |-> PANEL_POINT_ENTRY] : k \in 1..endpoint_count}

InitLayout == InitRegistry /\ InitLayoutVars /\ InitStore /\ InitApp

LayoutNext ==
    \/ \E id \in ItemIds, x \in GridXs, y \in GridYs : panel_layout_add_item(id, x, y)
    \/ \E x \in GridXs, y \in GridYs : panel_layout_add_endpoint(x, y)
    \/ \E f \in PresentRefs, t \in PresentRefs :
          panel_layout_add_track([from |-> f, to |-> t])
    \/ \E i \in 0..(PANEL_MAX_ITEMS - 1) : panel_layout_remove_item(i)
    \/ \E i \in 0..(PANEL_MAX_ENDPOINTS - 1) : panel_layout_remove_endpoint(i)
    \/ \E i \in 0..(PANEL_MAX_TRACKS - 1) : panel_layout_remove_track(i)

NextLayout == LayoutNext /\ UNCHANGED <<storeVars, appVars>>

SpecLayout == InitLayout /\ [][NextLayout]_vars

\* ------------------------------------------------------------------------
\* turnout_storage.c: turnout_storage_save, called by turnout_manager_save
\* ------------------------------------------------------------------------
\* The eight bytes printed by format_event_id, most significant first.
RECURSIVE ShiftRightBytes(_, _)
ShiftRightBytes(x, n) ==
    IF n = 0 THEN x ELSE ShiftRightBytes(x \div 256, n - 1)

format_event_id(event_id) ==
    [k \in 1..8 |-> ShiftRightBytes(event_id, 8 - k) % 256]

\* The document built at lines 194-226: version 1 and, per turnout below
\* the count, its name, the two formatted event ids and its order.
JsonOfRoster(tab, cnt) ==
    << [version |-> 1,
        turnouts |-> [k \in 1..cnt |->
            [name |-> tab[k - 1].name,
             event_normal |-> format_event_id(tab[k - 1].event_normal),
             event_reverse |-> format_event_id(tab[k - 1].event_reverse),
             order |-> tab[k - 1].user_order]]] >>

\* fwrite of a whole document, or of a part of it.
WrittenFile(json_str, full) ==
    [exists |-> TRUE, complete |-> full, data |-> json_str]

\* turnout_manager_save is entered: the caller reaches xSemaphoreTake
\* (turnout_manager.c line 316).
save_call(t) ==
    /\ pc[t] = "idle"
    /\ pc' = [pc EXCEPT ![t] = "save_take"]
    /\ sloc' = [NoSloc EXCEPT !.op = "roster"]
    /\ UNCHANGED <<s_turnouts, s_count, s_mutex, s_state_callback, now_us, loc, fs>>

\* The mutex is taken and turnout_storage_save(s_turnouts, s_count) is
\* entered (line 317); it serializes the table (lines 194-228).
save_take(t) ==
    /\ pc[t] = "save_take" /\ s_mutex = "free"
    /\ s_mutex' = t
    /\ sloc' = [sloc EXCEPT !.json_str = JsonOfRoster(s_turnouts, s_count),
                            !.prev = fs[TURNOUT_STORAGE_PATH]]
    /\ pc' = [pc EXCEPT ![t] = "ts_fopen"]
    /\ UNCHANGED <<s_turnouts, s_count, s_state_callback, now_us, loc, fs>>

\* fopen(TURNOUT_STORAGE_PATH, "w") (lines 230-235): success truncates the
\* target; failure returns ESP_FAIL.
ts_fopen(t) ==
    /\ pc[t] = "ts_fopen"
    /\ \E ok \in BOOLEAN :
          IF ok
          THEN /\ fs' = [fs EXCEPT ![TURNOUT_STORAGE_PATH] = EmptyFile]
               /\ pc' = [pc EXCEPT ![t] = "ts_fwrite"]
               /\ UNCHANGED sloc
          ELSE /\ sloc' = [sloc EXCEPT !.ret = "ESP_FAIL"]
               /\ pc' = [pc EXCEPT ![t] = "save_give"]
               /\ UNCHANGED fs
    /\ UNCHANGED <<s_turnouts, s_count, s_mutex, s_state_callback, now_us, loc>>

\* fwrite, fflush, fclose and the length test (lines 237-249).
ts_fwrite(t) ==
    /\ pc[t] = "ts_fwrite"
    /\ \E full \in BOOLEAN :
          /\ fs' = [fs EXCEPT ![TURNOUT_STORAGE_PATH] =
                                 WrittenFile(sloc.json_str, full)]
          /\ sloc' = [sloc EXCEPT !.ret = IF full THEN "ESP_OK" ELSE "ESP_FAIL"]
    /\ pc' = [pc EXCEPT ![t] = "save_give"]
    /\ UNCHANGED <<s_turnouts, s_count, s_mutex, s_state_callback, now_us, loc>>

\* xSemaphoreGive and return ret (turnout_manager.c lines 318-319).
save_give(t) ==
    /\ pc[t] = "save_give" /\ s_mutex = t
    /\ s_mutex' = "free"
    /\ pc' = [pc EXCEPT ![t] = "ret"]
    /\ UNCHANGED <<s_turnouts, s_count, s_state_callback, now_us, loc, fs, sloc>>

\* The save returns to its caller; its locals go out of scope.
store_return(t) ==
    /\ op_return(t)
    /\ sloc' = NoSloc
    /\ UNCHANGED fs

InitSave == InitRegistry /\ InitLayoutVars /\ InitStore /\ InitApp

\* The UI task edits the roster and saves it while the network task
\* delivers events.
SaveNext ==
    \/ /\ \E en \in Events, er \in Events : turnout_manager_add("ui", en, er, "")
       /\ UNCHANGED <<layoutVars, storeVars>>
    \/ /\ \E i \in Slots : turnout_manager_remove("ui", i)
       /\ UNCHANGED <<layoutVars, storeVars>>
    \/ save_call("ui") /\ UNCHANGED layoutVars
    \/ save_take("ui") /\ UNCHANGED layoutVars
    \/ ts_fopen("ui") /\ UNCHANGED layoutVars
    \/ ts_fwrite("ui") /\ UNCHANGED layoutVars
    \/ save_give("ui") /\ UNCHANGED layoutVars
    \/ store_return("ui") /\ UNCHANGED layoutVars
    \/ /\ \E e \in Events : ssbe_call("net", e)
       /\ UNCHANGED <<layoutVars, storeVars>>
    \/ ssbe_scan("net") /\ UNCHANGED <<layoutVars, storeVars>>
    \/ ssbe_cb("net") /\ UNCHANGED <<layoutVars, storeVars>>
    \/ op_return("net") /\ UNCHANGED <<layoutVars, storeVars>>

NextSave == SaveNext /\ UNCHANGED appVars

SpecSave == InitSave /\ [][NextSave]_vars

\* ------------------------------------------------------------------------
\* panel_storage.c: panel_storage_save
\* ------------------------------------------------------------------------
point_type_to_str(pt) ==
    IF pt = PANEL_POINT_NORMAL THEN "normal"
    ELSE IF pt = PANEL_POINT_REVERSE THEN "reverse"
    ELSE "entry"

\* snprintf of "endpoint:%u" or "turnout:%u" (lines 327-339).
RefString(ref) ==
    <<IF ref.type = PANEL_REF_ENDPOINT THEN "endpoint" ELSE "turnout", ref.id>>

\* The document built at lines 275-343.
JsonOfLayout(layout) ==
    << [version |-> 2,
        items |-> layout.items,
        endpoints |-> layout.endpoints,
        next_endpoint_id |-> layout.next_endpoint_id,
        tracks |-> [k \in 1..Len(layout.tracks) |->
            [from |-> RefString(layout.tracks[k].from),
             from_point |-> point_type_to_str(layout.tracks[k].from.point),
             to |-> RefString(layout.tracks[k].to),
             to_point |-> point_type_to_str(layout.tracks[k].to.point)]]] >>

\* Entry and serialization (lines 262-353).
ps_call(t) ==
    /\ pc[t] = "idle"
    /\ pc' = [pc EXCEPT ![t] = "ps_fopen"]
    /\ sloc' = [NoSloc EXCEPT !.op = "panel",
                              !.json_str = JsonOfLayout(s_layout),
                              !.prev = fs[PANEL_STORAGE_PATH]]
    /\ UNCHANGED <<s_turnouts, s_count, s_mutex, s_state_callback, now_us, loc, fs>>

\* One pass of the open loop (lines 356-362) and, after the last failed
\* attempt, the return of lines 363-368.
ps_fopen(t) ==
    /\ pc[t] = "ps_fopen"
    /\ \E ok \in BOOLEAN :
          IF ok
          THEN /\ fs' = [fs EXCEPT ![tmp_path] = EmptyFile]
               /\ pc' = [pc EXCEPT ![t] = "ps_fwrite"]
               /\ UNCHANGED sloc
          ELSE /\ sloc' = [sloc EXCEPT
                     !.attempt = @ + 1,
                     !.ret = IF sloc.attempt + 1 >= SD_OPEN_MAX_RETRIES
                             THEN "ESP_FAIL" ELSE @]
               /\ pc' = [pc EXCEPT ![t] =
                     IF sloc.attempt + 1 >= SD_OPEN_MAX_RETRIES
                     THEN "ret" ELSE "ps_fopen"]
               /\ UNCHANGED fs
    /\ UNCHANGED <<s_turnouts, s_count, s_mutex, s_state_callback, now_us, loc>>

\* fwrite, fclose and the length test (lines 370-375).
ps_fwrite(t) ==
    /\ pc[t] = "ps_fwrite"
    /\ \E full \in BOOLEAN :
          /\ fs' = [fs EXCEPT ![tmp_path] = WrittenFile(sloc.json_str, full)]
          /\ pc' = [pc EXCEPT ![t] = IF full THEN "ps_remove" ELSE "ps_remove_tmp"]
    /\ UNCHANGED <<s_turnouts, s_count, s_mutex, s_state_callback, now_us, loc, sloc>>

\* Short write: remove(tmp_path); return ESP_FAIL (lines 376-378).
ps_remove_tmp(t) ==
    /\ pc[t] = "ps_remove_tmp"
    /\ fs' = [fs EXCEPT ![tmp_path] = NoFile]
    /\ sloc' = [sloc EXCEPT !.ret = "ESP_FAIL"]
    /\ pc' = [pc EXCEPT ![t] = "ret"]
    /\ UNCHANGED <<s_turnouts, s_count, s_mutex, s_state_callback, now_us, loc>>

\* remove(PANEL_STORAGE_PATH) (line 382).
ps_remove(t) ==
    /\ pc[t] = "ps_remove"
    /\ fs' = [fs EXCEPT ![PANEL_STORAGE_PATH] = NoFile]
    /\ pc' = [pc EXCEPT ![t] = "ps_rename"]
    /\ UNCHANGED <<s_turnouts, s_count, s_mutex, s_state_callback, now_us, loc, sloc>>

\* rename(tmp_path, PANEL_STORAGE_PATH) and the returns of lines 383-389.
ps_rename(t) ==
    /\ pc[t] = "ps_rename"
    /\ \E ok \in BOOLEAN :
          IF ok
          THEN /\ fs' = [fs EXCEPT ![PANEL_STORAGE_PATH] = fs[tmp_path],
                                   ![tmp_path] = NoFile]
               /\ sloc' = [sloc EXCEPT !.ret = "ESP_OK"]
          ELSE /\ sloc' = [sloc EXCEPT !.ret = "ESP_FAIL"]
               /\ UNCHANGED fs
    /\ pc' = [pc EXCEPT ![t] = "ret"]
    /\ UNCHANGED <<s_turnouts, s_count, s_mutex, s_state_callback, now_us, loc>>

InitPanelSave == InitRegistry /\ InitLayoutVars /\ InitStore /\ InitApp

\* The UI task edits the layout and saves it.
PanelSaveNext ==
    \/ /\ pc["ui"] = "idle"
       /\ \E id \in ItemIds, x \in GridXs, y \in GridYs :
             panel_layout_add_item(id, x, y)
       /\ UNCHANGED storeVars
    \/ /\ pc["ui"] = "idle"
       /\ \E x \in GridXs, y \in GridYs : panel_layout_add_endpoint(x, y)
       /\ UNCHANGED storeVars
    \/ ps_call("ui") /\ UNCHANGED layoutVars
    \/ ps_fopen("ui") /\ UNCHANGED layoutVars
    \/ ps_fwrite("ui") /\ UNCHANGED layoutVars
    \/ ps_remove_tmp("ui") /\ UNCHANGED layoutVars
    \/ ps_remove("ui") /\ UNCHANGED layoutVars
    \/ ps_rename("ui") /\ UNCHANGED layoutVars
    \/ store_return("ui") /\ UNCHANGED layoutVars

NextPanelSave == PanelSaveNext /\ UNCHANGED appVars

SpecPanelSave == InitPanelSave /\ [][NextPanelSave]_vars

\* ------------------------------------------------------------------------
\* panel_storage.c: panel_storage_load
\* ------------------------------------------------------------------------
\* A point string of the file that is neither "normal" nor "reverse".
str_to_point_type_NoReverse(str) ==
    IF str = "normal" THEN PANEL_POINT_NORMAL ELSE PANEL_POINT_ENTRY

str_to_point_type(str) ==
    IF str = "normal" THEN PANEL_POINT_NORMAL
    ELSE IF str = "reverse" THEN PANEL_POINT_REVERSE
    ELSE PANEL_POINT_ENTRY

\* strncmp(str, "endpoint:", 9) == 0 or strncmp(str, "turnout:", 8) == 0.
RefStringRecognized(str) == str[1] \in {"endpoint", "turnout"}

\* One end of a track as lines 222-248 parse it.
ParseRef(str, point_str) ==
    [type |-> IF str[1] = "endpoint" THEN PANEL_REF_ENDPOINT ELSE PANEL_REF_TURNOUT,
     id |-> str[2],
     point |-> str_to_point_type(point_str)]

\* The item loop (lines 141-163): at most PANEL_MAX_ITEMS array elements,
\* the rotation masked with 0x07.
LoadItems(arr) ==
    [k \in 1..(IF Len(arr) > PANEL_MAX_ITEMS THEN PANEL_MAX_ITEMS ELSE Len(arr)) |->
        [turnout_id |-> arr[k].turnout_id,
         grid_x |-> arr[k].grid_x,
         grid_y |-> arr[k].grid_y,
         rotation |-> arr[k].rotation % 8,
         mirrored |-> arr[k].mirrored]]

\* The endpoint loop (lines 174-191).
LoadEndpoints(arr) ==
    [k \in 1..(IF Len(arr) > PANEL_MAX_ENDPOINTS THEN PANEL_MAX_ENDPOINTS
               ELSE Len(arr)) |->
        [id |-> arr[k].id, grid_x |-> arr[k].grid_x, grid_y |-> arr[k].grid_y]]

\* The track loop (lines 206-252) over the first n array elements: a track
\* with an unrecognized reference is skipped.
RECURSIVE LoadTracks(_, _)
LoadTracks(arr, n) ==
    IF n = 0 \/ arr = << >> THEN << >>
    ELSE IF RefStringRecognized(Head(arr).from) /\ RefStringRecognized(Head(arr).to)
         THEN << [from |-> ParseRef(Head(arr).from, Head(arr).from_point),
                  to |-> ParseRef(Head(arr).to, Head(arr).to_point)] >>
              \o LoadTracks(Tail(arr), n - 1)
         ELSE LoadTracks(Tail(arr), n - 1)

\* panel_storage_load (lines 84-260): a missing file, a file that does not
\* parse and an unknown version leave the memset layout.
LayoutOfFile(file) ==
    IF ~ file.exists \/ ~ file.complete THEN EmptyLayout
    ELSE IF file.data[1].version \notin {1, 2} THEN EmptyLayout
    ELSE [items |-> LoadItems(file.data[1].items),
          endpoints |-> LoadEndpoints(file.data[1].endpoints),
          next_endpoint_id |-> file.data[1].next_endpoint_id,
          tracks |-> LoadTracks(file.data[1].tracks, PANEL_MAX_TRACKS)]

\* ------------------------------------------------------------------------
\* turnout_storage.c: turnout_storage_load
\* ------------------------------------------------------------------------
\* sscanf of eight dotted hex bytes succeeds.
IsEventString(str) == Len(str) = 8 /\ \A k \in 1..8 : str[k] \in 0..255

\* The value assembled from the eight bytes, most significant first.
RECURSIVE BytesValue(_, _)
BytesValue(str, n) ==
    IF n = 0 THEN 0 ELSE BytesValue(str, n - 1) * 256 + str[n]

parse_event_id(str) == BytesValue(str, 8)

\* The loop of lines 139-183 over the array: a full table ends it, an
\* entry with an invalid event id is skipped after its slot was cleared
\* and named.
RECURSIVE LoadTurnouts(_, _, _, _)
LoadTurnouts(arr, tab, count, max_count) ==
    IF arr = << >> \/ count >= max_count THEN [tab |-> tab, count |-> count]
    ELSE IF ~ IsEventString(Head(arr).event_normal)
            \/ ~ IsEventString(Head(arr).event_reverse)
         THEN LoadTurnouts(Tail(arr),
                  [tab EXCEPT ![count] = [ZeroTurnout EXCEPT !.name = Head(arr).name]],
                  count, max_count)
         ELSE LoadTurnouts(Tail(arr),
                  [tab EXCEPT ![count] =
                      [ZeroTurnout EXCEPT
                          !.name = Head(arr).name,
                          !.event_normal = parse_event_id(Head(arr).event_normal),
                          !.event_reverse = parse_event_id(Head(arr).event_reverse),
                          !.user_order = Head(arr).order,
                          !.state = TURNOUT_STATE_UNKNOWN,
                          !.last_update_us = 0,
                          !.command_pending = FALSE]],
                  count + 1, max_count)

\* turnout_storage_load (lines 95-189) into a cleared table.
RosterOfFile(file, tab, max_count) ==
    IF ~ file.exists THEN [ret |-> "ESP_ERR_NOT_FOUND", tab |-> tab, count |-> 0]
    ELSE IF ~ file.complete THEN [ret |-> "ESP_FAIL", tab |-> tab, count |-> 0]
    ELSE [ret |-> "ESP_OK",
          tab |-> LoadTurnouts(file.data[1].turnouts, tab, 0, max_count).tab,
          count |-> LoadTurnouts(file.data[1].turnouts, tab, 0, max_count).count]

\* ------------------------------------------------------------------------
\* turnout_storage.c: turnout_storage_import_jmri
\* ------------------------------------------------------------------------
\* A scan that stops one slot short of the count.
event_already_exists_OffByOne(tab, count, ev_normal, ev_reverse) ==
    \E i \in 0..(count - 2) :
        \/ tab[i].event_normal = ev_normal
        \/ tab[i].event_reverse = ev_reverse
        \/ tab[i].event_normal = ev_reverse
        \/ tab[i].event_reverse = ev_normal

\* A scan that compares each event id with the id of the same role only.
event_already_exists_SameRoleOnly(tab, count, ev_normal, ev_reverse) ==
    \E i \in 0..(count - 1) :
        \/ tab[i].event_normal = ev_normal
        \/ tab[i].event_reverse = ev_reverse

event_already_exists(tab, count, ev_normal, ev_reverse) ==
    \E i \in 0..(count - 1) :
        \/ tab[i].event_normal = ev_normal
        \/ tab[i].event_reverse = ev_reverse
        \/ tab[i].event_normal = ev_reverse
        \/ tab[i].event_reverse = ev_normal

\* snprintf(t->name, ..., "JMRI Turnout %d", imported + 1)
JmriName(n) == <<"JMRI Turnout 1", "JMRI Turnout 2", "JMRI Turnout 3",
                 "JMRI Turnout 4">>[n]

\* The loop of lines 403-500 over the <turnout> blocks of the file.  A
\* block is kept as what the parser extracts from it: whether systemName is
\* found and parses, its two event ids, the inverted attribute and the
\* userName text.
RECURSIVE ImportLoop(_, _, _, _, _)
ImportLoop(blocks, tab, count, imported, max_count) ==
    IF blocks = << >> \/ count >= max_count THEN [tab |-> tab, count |-> count]
    ELSE LET b == Head(blocks)
             ev_normal == IF b.inverted THEN b.ev2 ELSE b.ev1
             ev_reverse == IF b.inverted THEN b.ev1 ELSE b.ev2
         IN IF ~ b.sys_name_ok
               \/ event_already_exists(tab, count, ev_normal, ev_reverse)
            THEN ImportLoop(Tail(blocks), tab, count, imported, max_count)
            ELSE ImportLoop(Tail(blocks),
                    [tab EXCEPT ![count] =
                        [ZeroTurnout EXCEPT
                            !.name = IF b.user_name # "" THEN b.user_name
                                     ELSE JmriName(imported + 1),
                            !.event_normal = ev_normal,
                            !.event_reverse = ev_reverse,
                            !.state = TURNOUT_STATE_UNKNOWN,
                            !.user_order = count]],
                    count + 1, imported + 1, max_count)

\* turnout_storage_import_jmri (lines 364-512).
turnout_storage_import_jmri(file, tab, count, max_count) ==
    IF ~ file.exists THEN [ret |-> "ESP_ERR_NOT_FOUND", tab |-> tab, count |-> count]
    ELSE [ret |-> "ESP_OK",
          tab |-> ImportLoop(file.data, tab, count, 0, max_count).tab,
          count |-> ImportLoop(file.data, tab, count, 0, max_count).count]

\* ------------------------------------------------------------------------
\* main.c: start-up loads (turnout_manager_init, panel_storage_load)
\* ------------------------------------------------------------------------
\* The table turnout_manager_init builds (lines 46-66): memset, load,
\* import.
InitLoaded(files) ==
    RosterOfFile(files[TURNOUT_STORAGE_PATH], [k \in Slots |-> ZeroTurnout],
                 TURNOUT_MAX_COUNT)

InitImported(files) ==
    turnout_storage_import_jmri(files[TURNOUT_JMRI_IMPORT_PATH],
        InitLoaded(files).tab, InitLoaded(files).count, TURNOUT_MAX_COUNT)

\* A start-up that hands the result of the load back unchanged.
turnout_manager_init_ret_NotFoundKept(files) == InitLoaded(files).ret

\* The value turnout_manager_init returns (lines 51-62, 76): a missing
\* roster file is not an error, any other failure of the load is returned.
turnout_manager_init_ret(files) ==
    IF InitLoaded(files).ret = "ESP_ERR_NOT_FOUND" THEN "ESP_OK"
    ELSE InitLoaded(files).ret

\* The value panel_storage_load returns for a layout that is not NULL
\* (panel_storage.c lines 94, 100, 108, 121, 130, 259).
panel_storage_load_ret(file) == "ESP_OK"

\* The device starts: app_main reaches turnout_manager_init (main.c 276).
app_main_call(t) ==
    /\ \A u \in Threads : pc[u] = "idle"
    /\ pc' = [pc EXCEPT ![t] = "boot"]
    /\ sloc' = [NoSloc EXCEPT !.op = "boot"]
    /\ UNCHANGED <<s_turnouts, s_count, s_mutex, s_state_callback, now_us, loc, fs>>
    /\ UNCHANGED layoutVars

\* turnout_manager_init (turnout_manager.c 35-77) followed by
\* panel_storage_load (main.c 284-285).  The save of line 72 opens and
\* writes the roster file like any other save.
app_main_load(t) ==
    /\ pc[t] = "boot" /\ s_mutex = "free"
    /\ s_turnouts' = InitImported(fs).tab
    /\ s_count' = InitImported(fs).count
    /\ IF InitImported(fs).ret = "ESP_OK"
          /\ InitImported(fs).count > InitLoaded(fs).count
       THEN \E opened \in BOOLEAN, full \in BOOLEAN :
              fs' = IF opened
                    THEN [fs EXCEPT ![TURNOUT_STORAGE_PATH] =
                            WrittenFile(JsonOfRoster(InitImported(fs).tab,
                                                     InitImported(fs).count), full)]
                    ELSE fs
       ELSE UNCHANGED fs
    /\ sloc' = [sloc EXCEPT !.ret = turnout_manager_init_ret(fs)]
    /\ s_layout' = LayoutOfFile(fs[PANEL_STORAGE_PATH])
    /\ layout_log' = NoCascadeLog
    /\ s_mutex' = "free"
    /\ pc' = [pc EXCEPT ![t] = "ret"]
    /\ UNCHANGED <<s_state_callback, now_us, loc>>

\* ------------------------------------------------------------------------
\* Save, restart, save: the stores applied to layouts and rosters
\* ------------------------------------------------------------------------
SeqsUpTo(S, n) == UNION {[1..k -> S] : k \in 0..n}

\* Placed items as the builder leaves them: rotation 0..7 (rotate button,
\* ui_panel_builder.c 831-832), mirrored or not (849-850).
RtItemSet ==
    [turnout_id : ItemIds, grid_x : GridXs, grid_y : GridYs,
     rotation : 0..7, mirrored : BOOLEAN]

RtEndpointSet ==
    [id : {MaxEndpointId - 1}, grid_x : GridXs, grid_y : GridYs]

\* Track ends: any point of a turnout, or an endpoint.
RtEndRefs ==
    [type : {PANEL_REF_ENDPOINT}, id : {MaxEndpointId - 1},
     point : {PANEL_POINT_ENTRY}]

RtRefs ==
    [type : {PANEL_REF_TURNOUT}, id : ItemIds, point : PointTypes] \cup RtEndRefs

RtLayouts ==
    [items : SeqsUpTo(RtItemSet, RtMaxItems),
     endpoints : SeqsUpTo(RtEndpointSet, RtMaxEndpoints),
     next_endpoint_id : {0, MaxEndpointId},
     tracks : SeqsUpTo([from : RtRefs, to : RtEndRefs] \cup [from : RtEndRefs, to : RtRefs],
                       RtMaxTracks)]

\* Turnouts as add, rename, swap and set_state_by_event leave them.
RtTurnoutSet ==
    {[ZeroTurnout EXCEPT !.name = n, !.event_normal = en, !.event_reverse = er,
                         !.user_order = o, !.state = st,
                         !.last_update_us = IF st = TURNOUT_STATE_UNKNOWN
                                            THEN 0 ELSE TickUs] :
        n \in {"A", DefaultName(1)}, en \in Events, er \in Events,
        o \in 0..(TURNOUT_MAX_COUNT - 1),
        st \in {TURNOUT_STATE_NORMAL}}

\* The table holding the turnouts of a sequence in its first slots.
TableOf(seq) ==
    [k \in Slots |-> IF k < Len(seq) THEN seq[k + 1] ELSE ZeroTurnout]

RtRosters == SeqsUpTo(RtTurnoutSet, TURNOUT_MAX_COUNT)

\* A layout and a roster that use every persisted field.
RtSampleLayout ==
    [items |-> << [turnout_id |-> MaxItemId, grid_x |-> MaxGridX,
                   grid_y |-> MaxGridY, rotation |-> 7, mirrored |-> TRUE] >>,
     endpoints |-> << [id |-> MaxEndpointId - 1, grid_x |-> 0, grid_y |-> 0] >>,
     next_endpoint_id |-> MaxEndpointId,
     tracks |-> << [from |-> [type |-> PANEL_REF_ENDPOINT, id |-> MaxEndpointId - 1,
                              point |-> PANEL_POINT_ENTRY],
                    to |-> [type |-> PANEL_REF_TURNOUT, id |-> MaxItemId,
                            point |-> PANEL_POINT_REVERSE]] >>]

RtSampleRoster ==
    << [ZeroTurnout EXCEPT !.name = "A", !.event_normal = 1, !.event_reverse = 2,
                           !.user_order = 0, !.state = TURNOUT_STATE_NORMAL,
                           !.last_update_us = TickUs] >>

InitRoundTrip ==
    /\ \E L \in RtLayouts, R \in RtRosters :
          /\ L = RtSampleLayout \/ R = RtSampleRoster
          /\ s_layout = L
          /\ s_turnouts = TableOf(R)
          /\ s_count = Len(R)
    /\ layout_log = NoCascadeLog
    /\ s_mutex = "free"
    /\ s_state_callback = FALSE
    /\ now_us = TickUs
    /\ pc = [t \in Threads |-> "idle"]
    /\ loc = [t \in Threads |-> NoLoc]
    /\ InitStore
    /\ InitApp

\* The UI task saves the layout and the roster; the device restarts and
\* loads them.
RoundTripNext ==
    \/ ps_call("ui") /\ UNCHANGED layoutVars
    \/ ps_fopen("ui") /\ UNCHANGED layoutVars
    \/ ps_fwrite("ui") /\ UNCHANGED layoutVars
    \/ ps_remove_tmp("ui") /\ UNCHANGED layoutVars
    \/ ps_remove("ui") /\ UNCHANGED layoutVars
    \/ ps_rename("ui") /\ UNCHANGED layoutVars
    \/ save_call("ui") /\ UNCHANGED layoutVars
    \/ save_take("ui") /\ UNCHANGED layoutVars
    \/ ts_fopen("ui") /\ UNCHANGED layoutVars
    \/ ts_fwrite("ui") /\ UNCHANGED layoutVars
    \/ save_give("ui") /\ UNCHANGED layoutVars
    \/ store_return("ui") /\ UNCHANGED layoutVars
    \/ app_main_call("ui")
    \/ app_main_load("ui")

NextRoundTrip == RoundTripNext /\ UNCHANGED appVars

SpecRoundTrip == InitRoundTrip /\ [][NextRoundTrip]_vars

\* ------------------------------------------------------------------------
\* Start-up with an external roster file on the card
\* ------------------------------------------------------------------------
\* The <turnout> blocks an external roster file can hold.
\* Event ids of an external roster: those of the registry and one more.
JmriEvents == 1..(MaxEvent + 1)

JmriBlocks ==
    [sys_name_ok : BOOLEAN, ev1 : JmriEvents, ev2 : JmriEvents, inverted : BOOLEAN,
     user_name : {"", "J"}]

JmriFiles ==
    {[exists |-> TRUE, complete |-> TRUE, data |-> d] :
        d \in SeqsUpTo(JmriBlocks, MaxBlocks)}

\* Files written by another release of the firmware: complete documents
\* whose version field is 3.
UnknownVersionRosterFile ==
    WrittenFile(<< [JsonOfRoster(TableOf(RtSampleRoster), 1)[1]
                        EXCEPT !.version = 3] >>, TRUE)

UnknownVersionLayoutFile ==
    WrittenFile(<< [JsonOfLayout(RtSampleLayout)[1] EXCEPT !.version = 3] >>, TRUE)

\* The save of a full table: "A" and, with the two event ids exchanged,
\* "B".
FullRosterFile ==
    WrittenFile(JsonOfRoster(
        [k \in Slots |->
            IF k = 0 THEN RtSampleRoster[1]
            ELSE [ZeroTurnout EXCEPT !.name = "B", !.event_normal = 2,
                                     !.event_reverse = 1, !.user_order = k]],
        TURNOUT_MAX_COUNT), TRUE)

\* The layout file on the card at start-up.
EarlierLayoutFiles == {NoFile, UnknownVersionLayoutFile}

\* The roster file left by an earlier run: none, a complete save, or a
\* save cut short.
EarlierRosterFiles ==
    {NoFile,
     WrittenFile(JsonOfRoster(TableOf(RtSampleRoster), 1), TRUE),
     WrittenFile(JsonOfRoster(TableOf(RtSampleRoster), 1), FALSE),
     UnknownVersionRosterFile,
     FullRosterFile}

InitImport ==
    /\ InitRegistry
    /\ InitLayoutVars
    /\ InitApp
    /\ sloc = NoSloc
    /\ \E j \in JmriFiles \cup {NoFile}, r \in EarlierRosterFiles,
          l \in EarlierLayoutFiles :
          /\ l = NoFile \/ j.data = << >>
          /\ fs = [p \in Paths |->
                     IF p = TURNOUT_JMRI_IMPORT_PATH THEN j
                     ELSE IF p = TURNOUT_STORAGE_PATH THEN r
                     ELSE IF p = PANEL_STORAGE_PATH THEN l
                     ELSE NoFile]

\* The device starts, and starts again.
ImportNext ==
    \/ app_main_call("ui")
    \/ app_main_load("ui")
    \/ store_return("ui") /\ UNCHANGED layoutVars

NextImport == ImportNext /\ UNCHANGED appVars

SpecImport == InitImport /\ [][NextImport]_vars

\* ------------------------------------------------------------------------
\* panel_geometry.c
\* ------------------------------------------------------------------------
\* Conversion to int16_t.
ToInt16(x) == ((x + 32768) % 65536) - 32768

\* A division that rounds the quotient down.
TruncDiv_Floor(a, b) == a \div b

\* C integer division: the quotient is truncated toward zero.
TruncDiv(a, b) == IF a >= 0 THEN a \div b ELSE -((-a) \div b)

\* A table of sines and cosines scaled by 1000.
s_rot_table_Scale1000 ==
    << [cos_fp |-> 1000, sin_fp |-> 0], [cos_fp |-> 707, sin_fp |-> 707],
       [cos_fp |-> 0, sin_fp |-> 1000], [cos_fp |-> -707, sin_fp |-> 707],
       [cos_fp |-> -1000, sin_fp |-> 0], [cos_fp |-> -707, sin_fp |-> -707],
       [cos_fp |-> 0, sin_fp |-> -1000], [cos_fp |-> 707, sin_fp |-> -707] >>

\* static const rot_entry_t s_rot_table[8] (rotation index r is element
\* r + 1).
s_rot_table ==
    << [cos_fp |-> 1024, sin_fp |-> 0], [cos_fp |-> 724, sin_fp |-> 724],
       [cos_fp |-> 0, sin_fp |-> 1024], [cos_fp |-> -724, sin_fp |-> 724],
       [cos_fp |-> -1024, sin_fp |-> 0], [cos_fp |-> -724, sin_fp |-> -724],
       [cos_fp |-> 0, sin_fp |-> -1024], [cos_fp |-> 724, sin_fp |-> -724] >>

rotate_offset(dx, dy, rot) ==
    LET r == s_rot_table[(rot % 8) + 1]
    IN << ToInt16(TruncDiv(dx * r.cos_fp - dy * r.sin_fp, 1024)),
          ToInt16(TruncDiv(dx * r.sin_fp + dy * r.cos_fp, 1024)) >>

\* A transform whose mirror negates the X component of the offset.
transform_point_MirrorX(local_dx, local_dy, item, origin_x, origin_y) ==
    LET dx == IF item.mirrored THEN ToInt16(-local_dx) ELSE local_dx
        rxy == rotate_offset(dx, local_dy, item.rotation)
    IN << ToInt16(origin_x + rxy[1]), ToInt16(origin_y + rxy[2]) >>

\* transform_point (lines 69-98): mirror, rotate, translate.
transform_point(local_dx, local_dy, item, origin_x, origin_y) ==
    LET dy == IF item.mirrored THEN ToInt16(-local_dy) ELSE local_dy
        rxy == rotate_offset(local_dx, dy, item.rotation)
    IN << ToInt16(origin_x + rxy[1]), ToInt16(origin_y + rxy[2]) >>

panel_geometry_get_points(item) ==
    LET origin_x == ToInt16(item.grid_x * PANEL_GRID_SIZE)
        origin_y == ToInt16(item.grid_y * PANEL_GRID_SIZE)
    IN [valid |-> TRUE,
        entry |-> <<origin_x, origin_y>>,
        normal |-> transform_point(LOCAL_NORMAL_DX, LOCAL_NORMAL_DY, item,
                                   origin_x, origin_y),
        reverse |-> transform_point(LOCAL_REVERSE_DX, LOCAL_REVERSE_DY, item,
                                    origin_x, origin_y)]

\* The grid cells the builder places an item on: the touch position is
\* clamped to the canvas (ui_panel_builder.c 394-399).
BuilderGridXs == 0..(BUILDER_CANVAS_WIDTH \div PANEL_GRID_SIZE)
BuilderGridYs == 0..(BUILDER_CANVAS_HEIGHT \div PANEL_GRID_SIZE)

\* The canvas is drawn: the points of one placed item are computed.
get_points_call(index) ==
    /\ index < item_count
    /\ geo' = panel_geometry_get_points(s_layout.items[index + 1])
    /\ UNCHANGED <<regVars, layoutVars, storeVars, nodeVars, callVars,
                   resolveVars, bootVars>>

\* One item placed by the builder, rotated and mirrored at will.
InitGeometry ==
    /\ InitRegistry /\ InitStore /\ InitApp
    /\ layout_log = NoCascadeLog
    /\ \E id \in {0}, x \in BuilderGridXs, y \in BuilderGridYs,
          r \in 0..7, m \in BOOLEAN :
          s_layout = [EmptyLayout EXCEPT !.items =
              << [turnout_id |-> id, grid_x |-> x, grid_y |-> y,
                  rotation |-> r, mirrored |-> m] >>]

NextGeometry == \E i \in 0..(PANEL_MAX_ITEMS - 1) : get_points_call(i)

SpecGeometry == InitGeometry /\ [][NextGeometry]_vars

\* ------------------------------------------------------------------------
\* lcc_node.cpp: the event handlers and route_event; main.c: the callbacks
\* ------------------------------------------------------------------------
\* The event messages the global listener is handed.
Mtis == {"EventReport", "ProducerIdentified"}
\* openlcb::EventState of a message.
EventStates == {"VALID", "INVALID", "UNKNOWN"}

\* lv_async_call: the call is queued; when the allocation fails (the queue
\* holds MaxAsync calls already) it is dropped.
lv_async_call(q, call) == IF Len(q) < MaxAsync THEN Append(q, call) ELSE q

\* Deferred calls run on the executor that queued them.
lv_async_thread_Executor == "net"

\* The task that runs queued calls: lv_async_call arms an LVGL timer, which
\* lv_timer_handler fires on the LVGL task.
lv_async_thread == "ui"

\* The executor hands a message to the handler of its type.
event_receive(t, mti, state, event) ==
    /\ pc[t] = "idle" /\ rx = NoRx
    /\ rx' = [NoRx EXCEPT !.mti = mti, !.state = state, !.event = event]
    /\ pc' = [pc EXCEPT ![t] = "handler"]
    /\ UNCHANGED <<s_turnouts, s_count, s_mutex, s_state_callback, now_us, loc>>
    /\ UNCHANGED <<s_discovery_mode, s_discovery_callback, lv_async, layout_access,
                 s_discover_list>>
    /\ UNCHANGED <<geo, resolveVars, bootVars, callVars, layoutVars, storeVars>>

\* A handler that drops only the INVALID producer state.
HandlerRoutes_NotInvalid(mti, state) ==
    mti = "EventReport" \/ state # "INVALID"

\* handle_event_report routes every message; handle_producer_identified
\* returns unless event->state is VALID (line 238).
HandlerRoutes(mti, state) ==
    mti = "EventReport" \/ state = "VALID"

\* Body of the two handlers up to the call of route_event.
handle_event(t) ==
    /\ pc[t] = "handler"
    /\ pc' = [pc EXCEPT ![t] =
          IF HandlerRoutes(rx.mti, rx.state) THEN "re_find" ELSE "ret"]
    /\ UNCHANGED <<s_turnouts, s_count, s_mutex, s_state_callback, now_us, loc>>
    /\ UNCHANGED <<nodeVars, geo, resolveVars, bootVars, callVars, layoutVars, storeVars>>

\* A scan that compares the normal id only.
turnout_manager_find_by_event_NormalOnly(event_id) ==
    IF \A i \in 0..(s_count - 1) : s_turnouts[i].event_normal # event_id
    THEN -1
    ELSE CHOOSE i \in 0..(s_count - 1) :
            /\ s_turnouts[i].event_normal = event_id
            /\ \A j \in 0..(i - 1) : s_turnouts[j].event_normal # event_id

\* turnout_manager_find_by_event (lines 264-278): the locked linear scan.
turnout_manager_find_by_event(event_id) ==
    FirstMatch(s_turnouts, s_count, event_id)

\* int idx = turnout_manager_find_by_event(event_id); (line 276)
re_find(t) ==
    /\ pc[t] = "re_find" /\ s_mutex = "free"
    /\ rx' = [rx EXCEPT !.idx = turnout_manager_find_by_event(rx.event)]
    /\ pc' = [pc EXCEPT ![t] =
          IF turnout_manager_find_by_event(rx.event) >= 0
          THEN "re_get" ELSE "re_disc"]
    /\ s_mutex' = "free"
    /\ UNCHANGED <<s_turnouts, s_count, s_state_callback, now_us, loc>>
    /\ UNCHANGED <<s_discovery_mode, s_discovery_callback, lv_async, layout_access,
                 s_discover_list>>
    /\ UNCHANGED <<geo, resolveVars, bootVars, callVars, layoutVars, storeVars>>

\* turnout_manager_get_by_index(idx, &t) (line 280): ESP_ERR_INVALID_ARG
\* when the index is no longer below the count; on ESP_OK
\* set_state_by_event is entered.
re_get(t) ==
    /\ pc[t] = "re_get" /\ s_mutex = "free"
    /\ IF rx.idx < s_count
       THEN /\ pc' = [pc EXCEPT ![t] = "ssbe_take"]
            /\ loc' = [loc EXCEPT ![t] =
                  [NoLoc EXCEPT !.op = "ssbe", !.event_id = rx.event, !.i = -1]]
       ELSE /\ pc' = [pc EXCEPT ![t] = "ret"]
            /\ UNCHANGED loc
    /\ s_mutex' = "free"
    /\ UNCHANGED <<s_turnouts, s_count, s_state_callback, now_us>>
    /\ UNCHANGED <<nodeVars, geo, resolveVars, bootVars, callVars, layoutVars, storeVars>>

\* A test that leaves the discovery mode out.
DiscoveryEnabled_NoModeTest == s_discovery_callback

\* The condition of line 287.
DiscoveryEnabled == s_discovery_mode /\ s_discovery_callback

\* else if (s_discovery_mode && s_discovery_callback)
\*     s_discovery_callback(event_id, 0);            (lines 287-290)
\* with discovery_cb of main.c (lines 175-182) as the callback.
re_disc(t) ==
    /\ pc[t] = "re_disc"
    /\ IF DiscoveryEnabled
       THEN /\ rx' = [rx EXCEPT !.disc = Append(@, rx.event)]
            /\ lv_async' = lv_async_call(lv_async,
                  [fn |-> "discovery_event_async", event |-> rx.event,
                   index |-> 0, state |-> TURNOUT_STATE_UNKNOWN])
       ELSE UNCHANGED <<rx, lv_async>>
    /\ pc' = [pc EXCEPT ![t] = "ret"]
    /\ UNCHANGED <<s_turnouts, s_count, s_mutex, s_state_callback, now_us, loc>>
    /\ UNCHANGED <<s_discovery_mode, s_discovery_callback, layout_access,
                 s_discover_list>>
    /\ UNCHANGED <<geo, resolveVars, bootVars, callVars, layoutVars, storeVars>>

\* The state callback of set_state_by_event with turnout_state_changed_cb
\* of main.c (lines 154-159) as the callback.
turnout_state_changed_cb(t) ==
    /\ ssbe_cb(t)
    /\ lv_async' =
          IF s_state_callback
          THEN lv_async_call(lv_async,
                  [fn |-> "ui_turnouts_update_tile_async", event |-> 0,
                   index |-> loc[t].i, state |-> loc[t].state])
          ELSE lv_async
    /\ UNCHANGED <<s_discovery_mode, s_discovery_callback, rx, layout_access,
                 s_discover_list>>
    /\ UNCHANGED <<geo, resolveVars, bootVars, callVars, layoutVars, storeVars>>

\* The handler returns (AutoNotify releases the message).
handler_return(t) ==
    /\ op_return(t)
    /\ rx' = NoRx
    /\ UNCHANGED <<s_discovery_mode, s_discovery_callback, lv_async, layout_access,
                 s_discover_list>>
    /\ UNCHANGED <<geo, resolveVars, bootVars, callVars, layoutVars, storeVars>>

lcc_node_set_discovery_mode(enabled) ==
    /\ s_discovery_mode' = enabled
    /\ UNCHANGED <<s_discovery_callback, rx, lv_async, layout_access,
                 s_discover_list>>
    /\ UNCHANGED <<regVars, geo, resolveVars, bootVars, callVars, layoutVars, storeVars>>

lcc_node_set_discovery_callback ==
    /\ s_discovery_callback = FALSE
    /\ s_discovery_callback' = TRUE
    /\ UNCHANGED <<s_discovery_mode, rx, lv_async, layout_access,
                 s_discover_list>>
    /\ UNCHANGED <<regVars, geo, resolveVars, bootVars, callVars, layoutVars, storeVars>>

\* A deferred discovery call that lists the event whatever the mode is.
discovery_event_async_NoGuard(list, event_id) == list \cup {event_id}

\* discovery_event_async (main.c 164-170): a call that finds discovery mode
\* off returns; otherwise ui_add_turnout_discovery_event (ui_add_turnout.c
\* 342-376) lists the id unless it is listed already.
discovery_event_async(list, event_id) ==
    IF s_discovery_mode THEN list \cup {event_id} ELSE list

\* The LVGL task runs the oldest queued call.  ui_turnouts_update_tile_async
\* (main.c 141-149) ends in ui_panel_update_turnout, which copies the
\* turnout under the registry mutex and walks the layout's items;
\* discovery_event_async (main.c 164-170) touches the list of the Add
\* Turnout tab only.
lv_async_run(t) ==
    /\ t = lv_async_thread
    /\ pc[t] = "idle"
    /\ lv_async # << >>
    /\ IF Head(lv_async).fn = "ui_turnouts_update_tile_async"
       THEN /\ s_mutex = "free"
            /\ layout_access' =
                  IF Head(lv_async).index < s_count THEN t ELSE layout_access
            /\ UNCHANGED s_discover_list
       ELSE /\ s_discover_list' =
                  discovery_event_async(s_discover_list, Head(lv_async).event)
            /\ UNCHANGED layout_access
    /\ lv_async' = Tail(lv_async)
    /\ UNCHANGED <<s_discovery_mode, s_discovery_callback, rx>>
    /\ UNCHANGED <<regVars, geo, resolveVars, bootVars, callVars, layoutVars, storeVars>>

\* The builder places an item: the layout is mutated on the task that
\* handles the touch event.
builder_add_item(t, turnout_id, gx, gy) ==
    /\ pc[t] = "idle"
    /\ panel_layout_add_item(turnout_id, gx, gy)
    /\ layout_access' = t
    /\ UNCHANGED <<s_discovery_mode, s_discovery_callback, rx, lv_async,
                   s_discover_list>>
    /\ UNCHANGED <<regVars, geo, resolveVars, bootVars, callVars, storeVars>>

\* The registry and the layout as main.c leaves them before the LCC node
\* starts: both callbacks are registered later, by the actions above.
InitRouter == Init

RouterNext ==
    \/ /\ \/ \E en \in Events, er \in Events : turnout_manager_add("ui", en, er, "A")
          \/ \E i \in Slots : turnout_manager_remove("ui", i)
          \/ \E a \in Slots, b \in Slots : turnout_manager_swap("ui", a, b)
          \/ turnout_manager_set_state_callback
       /\ UNCHANGED <<layoutVars, storeVars, appVars>>
    \/ \E en \in BOOLEAN : lcc_node_set_discovery_mode(en)
    \/ lcc_node_set_discovery_callback
    \/ \E m \in Mtis, st \in EventStates, e \in Events : event_receive("net", m, st, e)
    \/ handle_event("net")
    \/ re_find("net")
    \/ re_get("net")
    \/ re_disc("net")
    \/ /\ ssbe_scan("net")
       /\ UNCHANGED <<layoutVars, storeVars, appVars>>
    \/ turnout_state_changed_cb("net")
    \/ handler_return("net")

SpecRouter == InitRouter /\ [][RouterNext]_vars

\* ------------------------------------------------------------------------
\* The deferred calls between the executor and the LVGL task
\* ------------------------------------------------------------------------
\* Event reports arrive on the executor while the UI adds, removes and
\* swaps turnouts and toggles discovery mode (discover_btn_cb,
\* ui_add_turnout.c 164-181), and the LVGL task runs the deferred calls.
DeferredNext ==
    \/ /\ \/ \E en \in Events, er \in Events : turnout_manager_add("ui", en, er, "A")
          \/ \E i \in Slots : turnout_manager_remove("ui", i)
          \/ \E a \in Slots, b \in Slots : turnout_manager_swap("ui", a, b)
          \/ turnout_manager_set_state_callback
       /\ UNCHANGED <<layoutVars, storeVars, appVars>>
    \/ \E en \in BOOLEAN : lcc_node_set_discovery_mode(en)
    \/ lcc_node_set_discovery_callback
    \/ \E t \in Threads : lv_async_run(t)
    \/ \E e \in Events : event_receive("net", "EventReport", "VALID", e)
    \/ handle_event("net")
    \/ re_find("net")
    \/ re_get("net")
    \/ re_disc("net")
    \/ /\ ssbe_scan("net")
       /\ UNCHANGED <<layoutVars, storeVars, appVars>>
    \/ turnout_state_changed_cb("net")
    \/ handler_return("net")

SpecDeferred == InitRouter /\ [][DeferredNext]_vars

\* ------------------------------------------------------------------------
\* The layout between the executor and the LVGL task
\* ------------------------------------------------------------------------
\* Events arrive on the executor while the builder places items and the
\* LVGL task runs the deferred calls.
NotifyNext ==
    \/ /\ \/ \E en \in Events, er \in Events : turnout_manager_add("ui", en, er, "A")
          \/ turnout_manager_set_state_callback
       /\ UNCHANGED <<layoutVars, storeVars, appVars>>
    \/ lcc_node_set_discovery_mode(TRUE)
    \/ lcc_node_set_discovery_callback
    \/ \E t \in Threads : lv_async_run(t)
    \/ \E id \in 0..MaxItemId, gx \in 0..MaxGridX, gy \in 0..MaxGridY :
          builder_add_item("ui", id, gx, gy)
    \/ \E e \in Events : event_receive("net", "EventReport", "VALID", e)
    \/ handle_event("net")
    \/ re_find("net")
    \/ re_get("net")
    \/ re_disc("net")
    \/ /\ ssbe_scan("net")
       /\ UNCHANGED <<layoutVars, storeVars, appVars>>
    \/ turnout_state_changed_cb("net")
    \/ handler_return("net")

SpecNotify == InitRouter /\ [][NotifyNext]_vars

\* ------------------------------------------------------------------------
\* ui_panel_builder.c: the name snapshot of builder_refresh_canvas
\* ------------------------------------------------------------------------
\* A lock call that returns without the mutex.
turnout_manager_lock_NoTake(t) == "free"

\* Holder of the mutex when turnout_manager_lock returns
\* (xSemaphoreTake(s_mutex, portMAX_DELAY), turnout_manager.c 322-325).
turnout_manager_lock(t) == t

\* The canvas is redrawn: the caller reaches turnout_manager_lock (line
\* 1176).
builder_refresh_canvas(t) ==
    /\ pc[t] = "idle"
    /\ pc' = [pc EXCEPT ![t] = "br_lock"]
    /\ br' = NoBr
    /\ UNCHANGED <<s_turnouts, s_count, s_mutex, s_state_callback, now_us, loc>>
    /\ UNCHANGED <<geo, resolveVars, bootVars, nodeVars, qa, ml, layoutVars, storeVars>>

br_lock(t) ==
    /\ pc[t] = "br_lock" /\ s_mutex = "free"
    /\ s_mutex' = turnout_manager_lock(t)
    /\ pc' = [pc EXCEPT ![t] = "br_get_all"]
    /\ UNCHANGED <<s_turnouts, s_count, s_state_callback, now_us, loc>>
    /\ UNCHANGED <<geo, resolveVars, bootVars, nodeVars, callVars, layoutVars, storeVars>>

\* turnout_manager_get_all(&turnouts, &turnout_count) (turnout_manager.c
\* 106-111): the pointer to s_turnouts and the count, no lock taken.
br_get_all(t) ==
    /\ pc[t] = "br_get_all"
    /\ br' = [br EXCEPT !.turnouts = TRUE, !.turnout_count = s_count]
    /\ pc' = [pc EXCEPT ![t] = "br_loop"]
    /\ UNCHANGED <<s_turnouts, s_count, s_mutex, s_state_callback, now_us, loc>>
    /\ UNCHANGED <<geo, resolveVars, bootVars, nodeVars, qa, ml, layoutVars, storeVars>>

\* The slots below turnout_count whose id field equals the item's
\* turnout_id, read through the pointer.
SnapshotMatches(turnout_id) ==
    {j \in 0..(br.turnout_count - 1) : s_turnouts[j].id = turnout_id}

\* One iteration of the outer loop (lines 1180-1189): the inner loop reads
\* turnouts[j] until the first match and copies its name.
br_loop(t) ==
    /\ pc[t] = "br_loop"
    /\ IF br.i < item_count /\ br.i < PANEL_MAX_ITEMS
       THEN /\ br' = [br EXCEPT
                  !.i = @ + 1,
                  !.reads = Append(@,
                     LET m == SnapshotMatches(s_layout.items[br.i + 1].turnout_id)
                     IN [found |-> m # {},
                         name |-> IF m = {} THEN ""
                                  ELSE s_turnouts[CHOOSE j \in m :
                                          \A k \in m : j <= k].name,
                         held |-> s_mutex = t])]
            /\ UNCHANGED pc
       ELSE /\ pc' = [pc EXCEPT ![t] = "br_unlock"]
            /\ UNCHANGED br
    /\ UNCHANGED <<s_turnouts, s_count, s_mutex, s_state_callback, now_us, loc>>
    /\ UNCHANGED <<geo, resolveVars, bootVars, nodeVars, qa, ml, layoutVars, storeVars>>

\* turnout_manager_unlock() at line 1190; the block that declared the
\* pointer ends at line 1191.
br_unlock(t) ==
    /\ pc[t] = "br_unlock"
    /\ s_mutex' = IF s_mutex = t THEN "free" ELSE s_mutex
    /\ br' = [br EXCEPT !.turnouts = FALSE]
    /\ pc' = [pc EXCEPT ![t] = "ret"]
    /\ UNCHANGED <<s_turnouts, s_count, s_state_callback, now_us, loc>>
    /\ UNCHANGED <<geo, resolveVars, bootVars, nodeVars, qa, ml, layoutVars, storeVars>>

\* The builder redraws its canvas while the executor reports events.
RefreshNext ==
    \/ /\ \/ \E en \in Events, er \in Events, n \in AddNames :
                turnout_manager_add("ui", en, er, n)
          \/ \E i \in Slots : turnout_manager_remove("ui", i)
          \/ \E e \in Events : ssbe_call("net", e)
          \/ ssbe_scan("net")
          \/ ssbe_cb("net")
          \/ op_return("net")
          \/ op_return("ui")
       /\ UNCHANGED <<layoutVars, storeVars, appVars>>
    \/ \E id \in 0..MaxItemId, gx \in 0..MaxGridX, gy \in 0..MaxGridY :
          builder_add_item("ui", id, gx, gy)
    \/ builder_refresh_canvas("ui")
    \/ br_lock("ui")
    \/ br_get_all("ui")
    \/ br_loop("ui")
    \/ br_unlock("ui")

SpecRefresh == Init /\ [][RefreshNext]_vars

\* ------------------------------------------------------------------------
\* lcc_node.cpp: lcc_node_query_all_turnout_states on the main task
\* ------------------------------------------------------------------------
\* The two ids that tell one registered turnout from another.
PairOf(tu) == <<tu.event_normal, tu.event_reverse>>

\* The order of the two IdentifyProducer messages of one turnout (lines
\* 569-582).
QueryOrder == <<"normal", "reverse">>

\* MTI_PRODUCER_IDENTIFY for one id of the copied turnout.
IdentifyProducer(tu, role) ==
    [kind |-> "identify", role |-> role, of |-> PairOf(tu),
     event |-> IF role = "normal" THEN tu.event_normal ELSE tu.event_reverse,
     ms |-> 0]

\* vTaskDelay(pdMS_TO_TICKS(pace_ms / 2))
PaceDelay(pace_ms) ==
    [kind |-> "delay", role |-> "none", of |-> <<0, 0>>, event |-> 0,
     ms |-> pace_ms \div 2]

\* The locals once the count and the pace are read (lines 559-560).
QaEntry ==
    [NoQa EXCEPT !.pc = "qa_get", !.count = s_count,
                 !.pace_ms = DEFAULT_QUERY_PACE_MS,
                 !.stayed = {PairOf(s_turnouts[k]) : k \in 0..(s_count - 1)}]

\* Entry (lines 555-562): return unless the node is running, else read the
\* count under the mutex and the pace.
qa_call(running) ==
    /\ qa.pc = "idle" /\ s_mutex = "free"
    /\ qa' = IF running THEN QaEntry ELSE [NoQa EXCEPT !.pc = "ret"]
    /\ UNCHANGED <<regVars, geo, resolveVars, bootVars, nodeVars, br, ml, layoutVars, storeVars>>

\* The loop test and turnout_manager_get_by_index(i, &t) (lines 564-566):
\* a locked copy, ESP_ERR_INVALID_ARG when i is not below the count.
qa_get ==
    /\ qa.pc = "qa_get" /\ s_mutex = "free"
    /\ qa' = IF qa.i >= qa.count THEN [qa EXCEPT !.pc = "ret"]
             ELSE IF qa.i >= s_count THEN [qa EXCEPT !.i = @ + 1]
             ELSE [qa EXCEPT !.t = s_turnouts[qa.i], !.pc = "qa_send1"]
    /\ UNCHANGED <<regVars, geo, resolveVars, bootVars, nodeVars, br, ml, layoutVars, storeVars>>

\* The first message and its delay (lines 571-576).
qa_send1 ==
    /\ qa.pc = "qa_send1"
    /\ qa' = [qa EXCEPT
          !.out = @ \o << IdentifyProducer(qa.t, QueryOrder[1]),
                          PaceDelay(qa.pace_ms) >>,
          !.pc = "qa_send2"]
    /\ UNCHANGED <<regVars, geo, resolveVars, bootVars, nodeVars, br, ml, layoutVars, storeVars>>

\* The second message and its delay (lines 578-583), then i++.
qa_send2 ==
    /\ qa.pc = "qa_send2"
    /\ qa' = [qa EXCEPT
          !.out = @ \o << IdentifyProducer(qa.t, QueryOrder[2]),
                          PaceDelay(qa.pace_ms) >>,
          !.i = @ + 1,
          !.pc = "qa_get"]
    /\ UNCHANGED <<regVars, geo, resolveVars, bootVars, nodeVars, br, ml, layoutVars, storeVars>>

\* The call returns to the main loop; what it sent stays on record until
\* the next call.
qa_return ==
    /\ qa.pc = "ret"
    /\ qa' = [qa EXCEPT !.pc = "idle"]
    /\ UNCHANGED <<regVars, geo, resolveVars, bootVars, nodeVars, br, ml, layoutVars, storeVars>>

\* turnout_manager_remove by the UI task; a turnout removed while a query
\* runs was not registered for the whole of it.
query_remove(t, index) ==
    /\ turnout_manager_remove(t, index)
    /\ qa' = IF index < s_count
             THEN [qa EXCEPT !.stayed = @ \ {PairOf(s_turnouts[index])}]
             ELSE qa
    /\ UNCHANGED <<geo, resolveVars, bootVars, nodeVars, br, ml, layoutVars, storeVars>>

\* The main task queries while the UI task edits the registry.
QueryNext ==
    \/ /\ \/ \E en \in Events, er \in Events : turnout_manager_add("ui", en, er, "A")
          \/ \E a \in Slots, b \in Slots : turnout_manager_swap("ui", a, b)
       /\ UNCHANGED <<layoutVars, storeVars, appVars>>
    \/ \E i \in Slots : query_remove("ui", i)
    \/ \E running \in BOOLEAN : qa_call(running)
    \/ qa_get
    \/ qa_send1
    \/ qa_send2
    \/ qa_return

SpecQuery == Init /\ [][QueryNext]_vars

\* ------------------------------------------------------------------------
\* main.c: the main loop of app_main
\* ------------------------------------------------------------------------
\* screen_timeout_tick(); vTaskDelay(pdMS_TO_TICKS(500)); (lines 345-346):
\* one loop period passes.
main_loop_delay ==
    /\ ml.pc = "top" /\ qa.pc = "idle"
    /\ now_us < MaxLoopTicks * TickUs
    /\ now_us' = now_us + TickUs
    /\ ml' = [ml EXCEPT !.pc = "refresh"]
    /\ UNCHANGED <<s_turnouts, s_count, s_mutex, s_state_callback, pc, loc>>
    /\ UNCHANGED <<geo, resolveVars, bootVars, nodeVars, br, qa, layoutVars, storeVars>>

\* The periodic re-query (lines 348-355): when the stale timeout is nonzero
\* and that long has passed since last_refresh, last_refresh is reset and
\* lcc_node_query_all_turnout_states is called.  The heartbeat log that
\* follows (lines 357-365) changes nothing.  No other call is made.
main_loop_refresh ==
    /\ ml.pc = "refresh" /\ s_mutex = "free"
    /\ IF /\ ml.stale_timeout > 0
          /\ (now_us - ml.last_refresh) >= ml.stale_timeout * TickUs
       THEN /\ ml' = [ml EXCEPT !.pc = "top", !.last_refresh = now_us]
            /\ qa' = QaEntry
       ELSE /\ ml' = [ml EXCEPT !.pc = "top"]
            /\ UNCHANGED qa
    /\ UNCHANGED <<regVars, geo, resolveVars, bootVars, nodeVars, br, layoutVars, storeVars>>

\* The stale timeout of the configuration: 0 (disabled) or one loop period.
InitMainLoop ==
    /\ InitRegistry /\ InitLayoutVars /\ InitStore
    /\ geo = NoPoints /\ InitNode
    /\ br = NoBr /\ qa = NoQa /\ InitResolve /\ InitBooted
    /\ \E tm \in Timeouts : ml = [NoMl EXCEPT !.stale_timeout = tm]

\* Events arrive on the executor while the main loop runs.
MainLoopNext ==
    \/ /\ \/ \E en \in Events, er \in Events : turnout_manager_add("ui", en, er, "A")
          \/ turnout_manager_set_state_callback
          \/ \E e \in Events : ssbe_call("net", e)
          \/ ssbe_scan("net")
          \/ ssbe_cb("net")
          \/ op_return("net")
       /\ UNCHANGED <<layoutVars, storeVars, appVars>>
    \/ main_loop_delay
    \/ main_loop_refresh
    \/ qa_get
    \/ qa_send1
    \/ qa_send2
    \/ qa_return

SpecMainLoop == InitMainLoop /\ [][MainLoopNext]_vars

\* ------------------------------------------------------------------------
\* panel_layout.c: panel_layout_resolve_track and its last-hit cache
\* ------------------------------------------------------------------------
\* panel_geometry_get_connection_point (panel_geometry.c 140-167): the
\* point of the symbol the reference names, the entry by default.
panel_geometry_get_connection_point(item, point) ==
    IF point = PANEL_POINT_NORMAL THEN panel_geometry_get_points(item).normal
    ELSE IF point = PANEL_POINT_REVERSE THEN panel_geometry_get_points(item).reverse
    ELSE panel_geometry_get_points(item).entry

\* The C indexes of the items whose turnout_id is id, and of the endpoints
\* whose id is id.
ItemsWithId(layout, id) ==
    {j \in 0..(Len(layout.items) - 1) : layout.items[j + 1].turnout_id = id}

EndpointsWithId(layout, id) ==
    {j \in 0..(Len(layout.endpoints) - 1) : layout.endpoints[j + 1].id = id}

\* The index a scan from 0 stops at.
FirstOf(S) == CHOOSE j \in S : \A k \in S : j <= k

\* An end that does not resolve: the coordinates are not written.
EndNotResolved(last_hit) == [ok |-> FALSE, xy |-> <<0, 0>>, last_hit |-> last_hit]

\* resolve_track_end (lines 69-100) with the value of s_last_hit it finds:
\* whether the end resolves, the coordinates written, and s_last_hit after.
resolve_track_end(layout, ref, last_hit) ==
    IF ref.type = PANEL_REF_ENDPOINT
    THEN IF EndpointsWithId(layout, ref.id) = {}
         THEN EndNotResolved(last_hit)
         ELSE LET ep == layout.endpoints[FirstOf(EndpointsWithId(layout, ref.id)) + 1]
              IN [ok |-> TRUE,
                  xy |-> <<ToInt16(ep.grid_x * PANEL_GRID_SIZE),
                           ToInt16(ep.grid_y * PANEL_GRID_SIZE)>>,
                  last_hit |-> last_hit]
    ELSE IF /\ last_hit < Len(layout.items)
            /\ layout.items[last_hit + 1].turnout_id = ref.id
    THEN [ok |-> TRUE,
          xy |-> panel_geometry_get_connection_point(layout.items[last_hit + 1],
                                                     ref.point),
          last_hit |-> last_hit]
    ELSE IF ItemsWithId(layout, ref.id) = {}
    THEN EndNotResolved(last_hit)
    ELSE [ok |-> TRUE,
          xy |-> panel_geometry_get_connection_point(
                    layout.items[FirstOf(ItemsWithId(layout, ref.id)) + 1], ref.point),
          last_hit |-> FirstOf(ItemsWithId(layout, ref.id))]

\* panel_layout_resolve_track (lines 102-110): the from end, then the to
\* end.
panel_layout_resolve_track(track) ==
    /\ LET a == resolve_track_end(s_layout, track.from, s_last_hit)
           b == resolve_track_end(s_layout, track.to, a.last_hit)
       IN /\ resolved' = [valid |-> TRUE, track |-> track, ret |-> a.ok /\ b.ok,
                          from_ok |-> a.ok, from_xy |-> a.xy,
                          to_ok |-> b.ok, to_xy |-> b.xy]
          /\ s_last_hit' = b.last_hit
    /\ UNCHANGED <<regVars, layoutVars, storeVars, geo, nodeVars, callVars,
                   bootVars>>

\* The grid columns items are placed on and the references resolved.
ResolveGridXs == 0..ResolveMaxGridX

ResolveRefs ==
    {[type |-> PANEL_REF_TURNOUT, id |-> id, point |-> p] :
        id \in ItemIds, p \in {PANEL_POINT_ENTRY, PANEL_POINT_NORMAL}}

\* Items are placed and removed and tracks are resolved for drawing.
ResolveNext ==
    \/ /\ \/ \E id \in ItemIds, x \in ResolveGridXs : panel_layout_add_item(id, x, 0)
          \/ \E i \in 0..(PANEL_MAX_ITEMS - 1) : panel_layout_remove_item(i)
       /\ UNCHANGED <<storeVars, appVars>>
    \/ \E f \in ResolveRefs, t \in ResolveRefs :
          panel_layout_resolve_track([from |-> f, to |-> t])

SpecResolve == InitLayout /\ [][ResolveNext]_vars

\* ------------------------------------------------------------------------
\* main.c: app_main from the loads to the main loop (lines 275-337)
\* ------------------------------------------------------------------------
\* An order that starts the node before the stores are loaded.
app_main_steps_NodeFirst ==
    << "lcc_node_init", "turnout_manager_init", "panel_storage_load",
       "set_state_callback", "set_discovery_callback", "ui_init",
       "ui_show_main", "query_all", "main_loop" >>

\* The calls of app_main in program order: turnout_manager_init (276),
\* panel_storage_load (285), the two callback registrations (294, 295),
\* lcc_node_init (302), ui_init (323), ui_show_main (329), the first query
\* (331-333), the main loop (341).
app_main_steps ==
    << "turnout_manager_init", "panel_storage_load", "set_state_callback",
       "set_discovery_callback", "lcc_node_init", "ui_init", "ui_show_main",
       "query_all", "main_loop" >>

\* The call that follows the given one.
StepAfter(step) ==
    app_main_steps[(CHOOSE k \in 1..Len(app_main_steps) : app_main_steps[k] = step) + 1]

\* ret = turnout_manager_init() (line 276): load, import, and the save of
\* a merged table.
am_turnout_manager_init ==
    /\ am.pc = "turnout_manager_init"
    /\ s_turnouts' = InitImported(fs).tab
    /\ s_count' = InitImported(fs).count
    /\ IF InitImported(fs).ret = "ESP_OK"
          /\ InitImported(fs).count > InitLoaded(fs).count
       THEN \E opened \in BOOLEAN, full \in BOOLEAN :
              fs' = IF opened
                    THEN [fs EXCEPT ![TURNOUT_STORAGE_PATH] =
                            WrittenFile(JsonOfRoster(InitImported(fs).tab,
                                                     InitImported(fs).count), full)]
                    ELSE fs
       ELSE UNCHANGED fs
    /\ am' = [pc |-> StepAfter(am.pc), loaded |-> am.loaded \cup {"roster"}]
    /\ UNCHANGED <<s_mutex, s_state_callback, now_us, pc, loc, sloc>>
    /\ UNCHANGED <<layoutVars, geo, nodeVars, callVars, resolveVars, s_status,
                   lcc_exec, ui_created>>

\* ret = panel_storage_load(layout) (lines 284-285).
am_panel_storage_load ==
    /\ am.pc = "panel_storage_load"
    /\ s_layout' = LayoutOfFile(fs[PANEL_STORAGE_PATH])
    /\ am' = [pc |-> StepAfter(am.pc), loaded |-> am.loaded \cup {"layout"}]
    /\ UNCHANGED <<regVars, layout_log, storeVars, geo, nodeVars, callVars,
                   resolveVars, s_status, lcc_exec, ui_created>>

\* turnout_manager_set_state_callback(turnout_state_changed_cb) (line 294).
am_set_state_callback ==
    /\ am.pc = "set_state_callback"
    /\ s_state_callback' = TRUE
    /\ am' = [am EXCEPT !.pc = StepAfter(am.pc)]
    /\ UNCHANGED <<s_turnouts, s_count, s_mutex, now_us, pc, loc>>
    /\ UNCHANGED <<layoutVars, storeVars, geo, nodeVars, callVars, resolveVars,
                   s_status, lcc_exec, ui_created>>

\* lcc_node_set_discovery_callback(discovery_cb) (line 295).
am_set_discovery_callback ==
    /\ am.pc = "set_discovery_callback"
    /\ s_discovery_callback' = TRUE
    /\ am' = [am EXCEPT !.pc = StepAfter(am.pc)]
    /\ UNCHANGED <<s_discovery_mode, rx, lv_async, layout_access,
                 s_discover_list>>
    /\ UNCHANGED <<regVars, layoutVars, storeVars, geo, callVars, resolveVars,
                   s_status, lcc_exec, ui_created>>

\* ret = lcc_node_init(&lcc_cfg) (line 302; lcc_node.cpp 417-496): the
\* config file cannot be opened and the node stays in LCC_STATUS_ERROR
\* (462-467), or the executor thread is started (482) and the node runs
\* (493).  app_main continues either way (303-311).
am_lcc_node_init ==
    /\ am.pc = "lcc_node_init"
    /\ s_status = "UNINITIALIZED"
    /\ \E config_ok \in BOOLEAN :
          /\ s_status' = IF config_ok THEN "RUNNING" ELSE "ERROR"
          /\ lcc_exec' = config_ok
    /\ am' = [am EXCEPT !.pc = StepAfter(am.pc)]
    /\ UNCHANGED <<regVars, layoutVars, storeVars, geo, nodeVars, callVars,
                   resolveVars, ui_created>>

\* ret = ui_init(&disp, &touch_indev) (lines 323-327): on failure app_main
\* halts in a delay loop.
am_ui_init ==
    /\ am.pc = "ui_init"
    /\ \E ok \in BOOLEAN :
          /\ ui_created' = ok
          /\ am' = [am EXCEPT !.pc = IF ok THEN StepAfter(am.pc) ELSE "halt"]
    /\ UNCHANGED <<regVars, layoutVars, storeVars, geo, nodeVars, callVars,
                   resolveVars, s_status, lcc_exec>>

\* ui_show_main() (line 329), then the first query of the turnout states
\* when the node runs (331-333), then the main loop.
am_ui_show_main ==
    /\ am.pc \in {"ui_show_main", "query_all"}
    /\ am' = [am EXCEPT !.pc = StepAfter(am.pc)]
    /\ UNCHANGED <<regVars, layoutVars, storeVars, geo, nodeVars, callVars,
                   resolveVars, s_status, lcc_exec, ui_created>>

\* The cards the device is started with: with or without a roster file, an
\* external roster file of one block, and a layout file.
BootCards ==
    {[p \in Paths |->
        IF p = TURNOUT_STORAGE_PATH /\ r
            THEN WrittenFile(JsonOfRoster(TableOf(RtSampleRoster), 1), TRUE)
        ELSE IF p = TURNOUT_JMRI_IMPORT_PATH /\ j
            THEN [exists |-> TRUE, complete |-> TRUE,
                  data |-> << [sys_name_ok |-> TRUE, ev1 |-> MaxEvent + 1,
                               ev2 |-> MaxEvent + 1,
                               inverted |-> FALSE, user_name |-> "J"] >>]
        ELSE IF p = PANEL_STORAGE_PATH /\ l
            THEN WrittenFile(JsonOfLayout(RtSampleLayout), TRUE)
        ELSE NoFile] : r \in BOOLEAN, j \in BOOLEAN, l \in BOOLEAN}

\* Reset: the statics hold their initializers and app_main is about to call
\* turnout_manager_init.
InitBoot ==
    /\ InitRegistry /\ InitLayoutVars
    /\ geo = NoPoints /\ InitNode /\ InitCalls /\ InitResolve
    /\ sloc = NoSloc
    /\ fs \in BootCards
    /\ am = [pc |-> app_main_steps[1], loaded |-> {}]
    /\ s_status = "UNINITIALIZED"
    /\ lcc_exec = FALSE
    /\ ui_created = FALSE

\* app_main runs; once the executor thread exists, events reach
\* set_state_by_event on it.
BootNext ==
    \/ am_turnout_manager_init
    \/ am_panel_storage_load
    \/ am_set_state_callback
    \/ am_set_discovery_callback
    \/ am_lcc_node_init
    \/ am_ui_init
    \/ am_ui_show_main
    \/ /\ lcc_exec
       /\ \/ \E e \in Events : ssbe_call("net", e)
          \/ ssbe_scan("net")
          \/ ssbe_cb("net")
          \/ op_return("net")
          \/ Tick
       /\ UNCHANGED <<layoutVars, storeVars, appVars>>

SpecBoot == InitBoot /\ [][BootNext]_vars

\* ------------------------------------------------------------------------
\* A state callback that calls back into the registry
\* ------------------------------------------------------------------------
\* The callback, invoked from set_state_by_event or check_stale, calls
\* turnout_manager_get_by_index or turnout_manager_find_by_event: the call
\* takes the mutex (turnout_manager.c 96, 266), which is not recursive
\* (xSemaphoreCreateMutex, line 38) ...
cb_registry_take(t) ==
    /\ pc[t] \in {"ssbe_cb", "cs_cb"} /\ s_state_callback
    /\ s_mutex = "free"
    /\ s_mutex' = t
    /\ pc' = [pc EXCEPT ![t] = IF pc[t] = "ssbe_cb" THEN "ssbe_cb_in" ELSE "cs_cb_in"]
    /\ UNCHANGED <<s_turnouts, s_count, s_state_callback, now_us, loc>>

\* ... and gives it on its way out (lines 98, 102, 271, 276).
cb_registry_give(t) ==
    /\ pc[t] \in {"ssbe_cb_in", "cs_cb_in"} /\ s_mutex = t
    /\ s_mutex' = "free"
    /\ pc' = [pc EXCEPT ![t] = IF pc[t] = "ssbe_cb_in" THEN "ssbe_cb_out" ELSE "cs_cb_out"]
    /\ UNCHANGED <<s_turnouts, s_count, s_state_callback, now_us, loc>>

\* The executor routes events and sweeps with such a callback registered
\* while the UI task adds, removes and redraws the builder canvas under
\* turnout_manager_lock.
ReentrantNext ==
    \/ /\ \/ \E en \in Events, er \in Events : turnout_manager_add("ui", en, er, "A")
          \/ \E i \in Slots : turnout_manager_remove("ui", i)
          \/ turnout_manager_set_state_callback
          \/ Tick
          \/ \E e \in Events : ssbe_call("net", e)
          \/ ssbe_scan("net")
          \/ (pc["net"] = "ssbe_cb_out" \/ ~ s_state_callback) /\ ssbe_cb("net")
          \/ \E tm \in Timeouts : cs_call("net", tm)
          \/ cs_take("net")
          \/ cs_loop("net")
          \/ pc["net"] = "cs_cb_out" /\ cs_cb("net")
          \/ cb_registry_take("net")
          \/ cb_registry_give("net")
          \/ op_return("net")
          \/ op_return("ui")
       /\ UNCHANGED <<layoutVars, storeVars, appVars>>
    \/ builder_refresh_canvas("ui")
    \/ br_lock("ui")
    \/ br_get_all("ui")
    \/ br_loop("ui")
    \/ br_unlock("ui")

SpecReentrant == Init /\ [][ReentrantNext]_vars

\* ------------------------------------------------------------------------
\* Endpoints across save and restart
\* ------------------------------------------------------------------------
\* The builder adds and removes endpoints and saves the layout; the device
\* restarts and loads the file that the last successful save left.
EndpointIdsNext ==
    \/ /\ pc["ui"] = "idle"
       /\ \E x \in GridXs, y \in GridYs : panel_layout_add_endpoint(x, y)
       /\ UNCHANGED storeVars
    \/ /\ pc["ui"] = "idle"
       /\ \E i \in 0..(PANEL_MAX_ENDPOINTS - 1) : panel_layout_remove_endpoint(i)
       /\ UNCHANGED storeVars
    \/ ps_call("ui") /\ UNCHANGED layoutVars
    \/ ps_fopen("ui") /\ UNCHANGED layoutVars
    \/ ps_fwrite("ui") /\ UNCHANGED layoutVars
    \/ ps_remove_tmp("ui") /\ UNCHANGED layoutVars
    \/ ps_remove("ui") /\ UNCHANGED layoutVars
    \/ ps_rename("ui") /\ UNCHANGED layoutVars
    \/ store_return("ui") /\ UNCHANGED layoutVars
    \/ app_main_call("ui")
    \/ app_main_load("ui")

NextEndpointIds == EndpointIdsNext /\ UNCHANGED appVars

SpecEndpointIds == InitPanelSave /\ [][NextEndpointIds]_vars

\* ------------------------------------------------------------------------
\* ui_turnouts.c: deleting a turnout that is placed on the panel
\* ------------------------------------------------------------------------
\* Conversion of the uint64_t event id to the uint32_t parameter of
\* panel_layout_find_item: the low two 16-bit halves are kept.
ToUint32(x) == (x % 65536) + 65536 * ((x \div 65536) % 65536)

\* panel_layout_find_item (panel_layout.c 53-59): index of the first item
\* with the given turnout_id, -1 when there is none.
panel_layout_find_item(layout, turnout_id) ==
    IF \A k \in 1..Len(layout.items) : layout.items[k].turnout_id # turnout_id
    THEN -1
    ELSE (CHOOSE k \in 1..Len(layout.items) :
            /\ layout.items[k].turnout_id = turnout_id
            /\ \A j \in 1..(k - 1) : layout.items[j].turnout_id # turnout_id) - 1

\* The card after panel_storage_save(layout) has returned (panel_storage.c
\* 262-392): the open failed every time; the write was short and the
\* temporary file was removed; the rename failed after the old file was
\* removed; or the new file is in place.
PanelSaveOutcomes(files, layout) ==
    { files,
      [files EXCEPT ![tmp_path] = NoFile],
      [files EXCEPT ![PANEL_STORAGE_PATH] = NoFile,
                    ![tmp_path] = WrittenFile(JsonOfLayout(layout), TRUE)],
      [files EXCEPT ![PANEL_STORAGE_PATH] = WrittenFile(JsonOfLayout(layout), TRUE),
                    ![tmp_path] = NoFile] }

\* The card after turnout_manager_save() has returned (turnout_storage.c
\* 191-252): the open failed, or the file holds the whole document or a
\* part of it.
RosterSaveOutcomes(files, tab, cnt) ==
    { files } \cup
    { [files EXCEPT ![TURNOUT_STORAGE_PATH] = WrittenFile(JsonOfRoster(tab, cnt), full)] :
        full \in BOOLEAN }

\* The key delete_confirm_btn_cb hands to panel_layout_find_item (line
\* 368): t.event_normal, converted to uint32_t.
DeleteLookupKey(tu) == ToUint32(tu.event_normal)

\* The turnout picker of the builder lists the turnouts that are not placed
\* (ui_panel_builder.c 326-330) and the canvas click places the chosen one
\* with panel_layout_add_item(layout, t.id, grid_x, grid_y) (401-421).
builder_place_turnout(t, idx, gx, gy) ==
    /\ idx < s_count
    /\ \A k \in 1..item_count : s_layout.items[k].turnout_id # s_turnouts[idx].id
    /\ builder_add_item(t, s_turnouts[idx].id, gx, gy)

\* delete_confirm_btn_cb (ui_turnouts.c 353-393) with s_delete_index =
\* index: the panel item found for the turnout is removed with its tracks
\* and the layout saved, the turnout is removed from the registry and the
\* roster saved.  The event registrations of the node and the tiles are
\* rebuilt from what is left.
delete_confirm_btn_cb(t, index) ==
    /\ pc[t] = "idle" /\ s_mutex = "free"
    /\ LET found == index < s_count
           pi == IF found
                 THEN panel_layout_find_item(s_layout, DeleteLookupKey(s_turnouts[index]))
                 ELSE -1
           layout1 == IF pi >= 0
                      THEN [s_layout EXCEPT
                              !.items = ShiftDown(@, pi),
                              !.tracks = CascadeTracks(@, PANEL_REF_TURNOUT,
                                            s_layout.items[pi + 1].turnout_id)]
                      ELSE s_layout
           tab1 == IF found THEN RemoveShift(s_turnouts, s_count, index) ELSE s_turnouts
           cnt1 == IF found THEN s_count - 1 ELSE s_count
       IN /\ s_layout' = layout1
          /\ layout_log' = IF pi >= 0
                           THEN CascadeLog("remove_item", s_layout.tracks, layout1.tracks)
                           ELSE layout_log
          /\ s_turnouts' = tab1
          /\ s_count' = cnt1
          /\ \E fs1 \in (IF pi >= 0 THEN PanelSaveOutcomes(fs, layout1) ELSE {fs}) :
                fs' \in RosterSaveOutcomes(fs1, tab1, cnt1)
    /\ s_mutex' = "free"
    /\ layout_access' = IF index < s_count THEN t ELSE layout_access
    /\ UNCHANGED <<s_state_callback, now_us, pc, loc, sloc>>
    /\ UNCHANGED <<s_discovery_mode, s_discovery_callback, rx, lv_async,
                   s_discover_list>>
    /\ UNCHANGED <<geo, resolveVars, bootVars, callVars>>

\* The operator adds turnouts, places them on the panel, connects their
\* points with tracks and deletes turnouts from the turnout list.
DeleteNext ==
    \/ /\ \E en \in Events, er \in Events : turnout_manager_add("ui", en, er, "A")
       /\ UNCHANGED <<layoutVars, storeVars, appVars>>
    \/ \E idx \in Slots, gx \in GridXs, gy \in GridYs :
          builder_place_turnout("ui", idx, gx, gy)
    \/ /\ \E f \in PresentRefs, g \in PresentRefs :
             panel_layout_add_track([from |-> f, to |-> g])
       /\ UNCHANGED <<storeVars, appVars>>
    \/ \E i \in Slots : delete_confirm_btn_cb("ui", i)

SpecDelete == InitLayout /\ [][DeleteNext]_vars

\* ------------------------------------------------------------------------
\* Properties of the registry
\* ------------------------------------------------------------------------
Live == 0..(s_count - 1)

\* The event ids (normal and reverse) of one turnout.
IdsOf(tu) == {tu.event_normal, tu.event_reverse}

\* The step of set_state_by_event that runs its critical section.
IsScanStep(t) == pc[t] = "ssbe_take" /\ pc'[t] # "ssbe_take"

\* C1: after any sequence of add and remove calls no event id is shared by
\* two live turnouts: no turnout's normal or reverse id equals another live
\* turnout's normal or reverse id.
C1_NoSharedEventId ==
    \A i \in Live, j \in Live :
        i # j => IdsOf(s_turnouts[i]) \cap IdsOf(s_turnouts[j]) = {}

\* C2: one sweep with a nonzero timeout leaves no live turnout that is
\* Normal/Reverse with a nonzero last_update older than the timeout, fires
\* the callback once for each turnout it marks, does not fire for a turnout
\* that is already Stale, and the next set_state_by_event whose event is one
\* of a Stale turnout's ids moves that turnout to Normal or Reverse.
C2_StaleOncePerSweep ==
    [][\A t \in Threads :
        /\ (pc[t] = "cs_loop" /\ pc'[t] = "ret") =>
              \A k \in 0..(s_count' - 1) :
                 ~ (/\ s_turnouts'[k].state \in {TURNOUT_STATE_NORMAL, TURNOUT_STATE_REVERSE}
                    /\ s_turnouts'[k].last_update_us # 0
                    /\ loc[t].now - s_turnouts'[k].last_update_us > loc[t].timeout_ms * 1000)
        /\ (pc[t] = "cs_cb" /\ pc'[t] # "cs_cb") =>
              loc'[t].cbs = Append(loc[t].cbs,
                  [index |-> loc[t].i, state |-> TURNOUT_STATE_STALE, held |-> FALSE])
        /\ (pc[t] = "cs_loop" /\ loc[t].i < s_count
              /\ s_turnouts[loc[t].i].state = TURNOUT_STATE_STALE) =>
              (pc'[t] = "cs_loop" /\ s_turnouts' = s_turnouts)
        /\ IsScanStep(t) =>
              \A k \in Live :
                 (s_turnouts[k].state = TURNOUT_STATE_STALE
                    /\ loc[t].event_id \in IdsOf(s_turnouts[k]))
                 => s_turnouts'[k].state \in {TURNOUT_STATE_NORMAL, TURNOUT_STATE_REVERSE}
      ]_vars

\* C5: every live turnout carries an id that differs from the id of every
\* other live turnout and that rename, swap, state updates and the removal
\* of other turnouts leave attached to the same turnout.
C5_StableUniqueId ==
    \A i \in Live, j \in Live : i # j => s_turnouts[i].id # s_turnouts[j].id

\* C6: set_state_by_event(e) sets every live turnout whose event_normal is e
\* to Normal, and one whose event_reverse is e to Reverse, stamps
\* last_update, clears command_pending, changes no other turnout and
\* invokes the registered callback exactly once with that index and state;
\* with no match the table is unchanged and no callback is invoked.
C6_SetStateByEvent ==
    [][\A t \in Threads :
        /\ IsScanStep(t) =>
              /\ s_count' = s_count
              /\ \A k \in Live :
                    LET e == loc[t].event_id
                        tu == s_turnouts[k]
                    IN IF e \in IdsOf(tu)
                       THEN /\ s_turnouts'[k].state =
                                  (IF e = tu.event_normal THEN TURNOUT_STATE_NORMAL
                                   ELSE TURNOUT_STATE_REVERSE)
                            /\ s_turnouts'[k].last_update_us = now_us
                            /\ s_turnouts'[k].command_pending = FALSE
                       ELSE s_turnouts'[k] = tu
              /\ (MatchingIndexes(s_turnouts, s_count, loc[t].event_id) # {}) =>
                    /\ loc'[t].i \in MatchingIndexes(s_turnouts, s_count, loc[t].event_id)
                    /\ loc'[t].state = s_turnouts'[loc'[t].i].state
              /\ (MatchingIndexes(s_turnouts, s_count, loc[t].event_id) = {}) =>
                    (s_turnouts' = s_turnouts /\ pc'[t] = "ret" /\ loc'[t].cbs = << >>)
        /\ (pc[t] = "ssbe_cb" /\ pc'[t] # "ssbe_cb") =>
              loc'[t].cbs =
                 (IF s_state_callback
                  THEN << [index |-> loc[t].i, state |-> loc[t].state, held |-> FALSE] >>
                  ELSE << >>)
      ]_vars

\* C7: whenever the state callback is executing, from set_state_by_event or
\* from check_stale, the invoking thread does not hold the registry mutex.
C7_CallbackWithoutMutex ==
    \A t \in Threads :
        /\ pc[t] \in {"ssbe_cb", "cs_cb"} => s_mutex # t
        /\ \A n \in 1..Len(loc[t].cbs) : ~ loc[t].cbs[n].held

\* A sweep has invoked the callback for a turnout it marked Stale and is
\* about to take the mutex again.
C7_Witness ==
    \E t \in Threads :
        /\ pc[t] = "cs_retake"
        /\ Len(loc[t].cbs) = 1
        /\ loc[t].cbs[1].state = TURNOUT_STATE_STALE
        /\ s_turnouts[loc[t].cbs[1].index].state = TURNOUT_STATE_STALE

\* ------------------------------------------------------------------------
\* Properties of the layout
\* ------------------------------------------------------------------------
\* The tracks of a sequence that have no end with the given (type, id).
TracksNotReferencing(tracks, type, id) ==
    SelectSeq(tracks, LAMBDA tr :
        ~ ((tr.from.type = type /\ tr.from.id = id)
           \/ (tr.to.type = type /\ tr.to.id = id)))

\* The number of tracks of a sequence with an end of the given (type, id).
NumReferencing(tracks, type, id) ==
    Cardinality({k \in 1..Len(tracks) :
        \/ (tracks[k].from.type = type /\ tracks[k].from.id = id)
        \/ (tracks[k].to.type = type /\ tracks[k].to.id = id)})

\* arr2 is arr with its element at position k taken out.
IsRemovalAt(arr, arr2, k) ==
    /\ Len(arr2) = Len(arr) - 1
    /\ \A n \in 1..Len(arr2) : arr2[n] = IF n < k THEN arr[n] ELSE arr[n + 1]

RefResolves(ref) ==
    IF ref.type = PANEL_REF_ENDPOINT
    THEN \E k \in 1..endpoint_count : s_layout.endpoints[k].id = ref.id
    ELSE \E k \in 1..item_count : s_layout.items[k].turnout_id = ref.id

\* C4: when every add_track is given references present at the time of the
\* call, every track's from and to resolve to a placed turnout or endpoint
\* in every state reached by the add and remove operations.
C4_NoDanglingTrack ==
    \A k \in 1..track_count :
        RefResolves(s_layout.tracks[k].from) /\ RefResolves(s_layout.tracks[k].to)

\* remove_endpoint has just cascaded both tracks of an endpoint away while
\* a turnout and another endpoint stay placed.
C4_Witness ==
    /\ layout_log = [op |-> "remove_endpoint", removed_tracks |-> 2]
    /\ track_count = 0
    /\ item_count >= 1
    /\ endpoint_count = 1

\* ------------------------------------------------------------------------
\* Properties of the stores
\* ------------------------------------------------------------------------
\* The positions at which a thread is inside a file operation of
\* turnout_storage_save.
RosterFileIo == {"ts_fopen", "ts_fwrite"}

\* C8: no thread is at a file operation of the roster save while it holds
\* the registry mutex, and set_state_by_event never waits for the mutex
\* while its holder is writing the roster file.
C8_NoFileIoUnderMutex ==
    /\ \A t \in Threads : pc[t] \in RosterFileIo => s_mutex # t
    /\ ~ (pc["net"] = "ssbe_take" /\ s_mutex = "ui" /\ pc["ui"] \in RosterFileIo)

\* C9: from the entry of panel_storage_save to its return, when the target
\* held a complete file at entry, the target holds that file or the
\* complete new document.
C9_PanelTargetNeverLost ==
    (sloc.op = "panel" /\ sloc.prev.exists /\ sloc.prev.complete) =>
        \/ fs[PANEL_STORAGE_PATH] = sloc.prev
        \/ fs[PANEL_STORAGE_PATH] = WrittenFile(sloc.json_str, TRUE)

\* C10: from the entry of turnout_storage_save to its return, when the
\* roster file was complete at entry, the roster file is that file until
\* the save has succeeded, and the complete new document afterwards; no
\* path other than the target is written first.
C10_RosterSaveAtomic ==
    (sloc.op = "roster" /\ pc["ui"] # "save_take"
        /\ sloc.prev.exists /\ sloc.prev.complete) =>
        IF sloc.ret = "ESP_OK"
        THEN fs[TURNOUT_STORAGE_PATH] = WrittenFile(sloc.json_str, TRUE)
        ELSE fs[TURNOUT_STORAGE_PATH] = sloc.prev

\* The step in which the restarted device loads both stores.
IsLoadStep == pc["ui"] = "boot" /\ pc'["ui"] = "ret"

\* The persisted fields of the live turnouts of a table.
PersistedTurnouts(tab, cnt) ==
    [k \in 0..(cnt - 1) |->
        <<tab[k].name, tab[k].event_normal, tab[k].event_reverse, tab[k].user_order>>]

C12_SecondImportAddsNothing ==
    [][IsLoadStep =>
        LET again == turnout_storage_import_jmri(fs[TURNOUT_JMRI_IMPORT_PATH],
                         s_turnouts', s_count', TURNOUT_MAX_COUNT)
        IN /\ again.count = s_count'
           /\ again.tab = s_turnouts'
      ]_vars

\* The start-up found no roster file and imported both blocks of a
\* two-block external file, the first of them unnamed.
C12_Witness ==
    /\ pc["ui"] = "ret" /\ sloc.op = "boot" /\ sloc.ret = "ESP_OK"
    /\ Len(fs[TURNOUT_JMRI_IMPORT_PATH].data) = 2
    /\ s_count = 2
    /\ s_turnouts[0].name = JmriName(1)
    /\ s_turnouts[1].name = "J"

\* C13: for an item of rotation 0, not mirrored, at grid (gx, gy) the
\* points are Entry = (gx*20, gy*20), Normal = (gx*20 + 60, gy*20) and
\* Reverse = (gx*20 + 40, gy*20 - 40).
C13_BasePoints ==
    \A k \in 1..item_count :
        LET item == s_layout.items[k] IN
        (geo.valid /\ k = 1 /\ item.rotation = 0 /\ ~ item.mirrored) =>
            /\ geo.entry = <<item.grid_x * 20, item.grid_y * 20>>
            /\ geo.normal = <<item.grid_x * 20 + 60, item.grid_y * 20>>
            /\ geo.reverse = <<item.grid_x * 20 + 40, item.grid_y * 20 - 40>>

\* The points of an unrotated, unmirrored item in the last column and the
\* first row of the canvas have been computed: Reverse lies above the
\* canvas.
C13_Witness ==
    /\ geo.valid
    /\ item_count = 1
    /\ s_layout.items[1].rotation = 0 /\ ~ s_layout.items[1].mirrored
    /\ s_layout.items[1].grid_x = BUILDER_CANVAS_WIDTH \div PANEL_GRID_SIZE
    /\ s_layout.items[1].grid_y = 0
    /\ geo.reverse[2] = -40

\* ------------------------------------------------------------------------
\* Properties of the event router
\* ------------------------------------------------------------------------
\* A step of the handler running on the executor.
IsHandlerStep == pc'["net"] # pc["net"]

\* The positions inside route_event and the calls it makes.
RoutePositions == {"re_find", "re_get", "re_disc", "ssbe_take", "ssbe_cb"}

\* C14: a ProducerIdentified message whose state is not VALID is dropped by
\* its handler: the handler's steps leave the registry and the queue of
\* deferred calls as they were, invoke neither callback and return; only an
\* EventReport or a VALID ProducerIdentified is ever inside route_event.
C14_InvalidProducerIgnored ==
    [][ /\ (/\ rx.mti = "ProducerIdentified" /\ rx.state # "VALID"
            /\ IsHandlerStep)
           => /\ pc'["net"] \in {"ret", "idle"}
              /\ s_turnouts' = s_turnouts /\ s_count' = s_count
              /\ lv_async' = lv_async
              /\ loc'["net"].cbs = << >>
              /\ rx'.disc = << >>
        /\ pc'["net"] \in RoutePositions
           => \/ rx'.mti = "EventReport"
              \/ rx'.mti = "ProducerIdentified" /\ rx'.state = "VALID" ]_vars

\* An INVALID ProducerIdentified for the id of a registered turnout has been
\* handled while both callbacks were registered and discovery was on.
C14_Witness ==
    /\ pc["net"] = "ret"
    /\ rx.mti = "ProducerIdentified" /\ rx.state = "INVALID"
    /\ \E i \in Live : rx.event \in IdsOf(s_turnouts[i])
    /\ s_state_callback /\ s_discovery_callback /\ s_discovery_mode

\* C15: route_event invokes the discovery callback exactly when the lookup
\* found no turnout with the event id and, at the test that follows,
\* discovery mode is on and a callback is registered; an event the lookup
\* matched never reaches discovery, and an unmatched event with discovery
\* off changes nothing.
C15_DiscoveryIffUnmatched ==
    [][ /\ (pc["net"] = "re_find" /\ IsHandlerStep)
           => (pc'["net"] = "re_disc"
                 <=> \A i \in Live : rx.event \notin IdsOf(s_turnouts[i]))
        /\ (pc["net"] = "re_disc" /\ IsHandlerStep)
           => /\ rx.idx = -1
              /\ IF s_discovery_mode /\ s_discovery_callback
                 THEN rx'.disc = <<rx.event>>
                 ELSE /\ rx'.disc = << >>
                      /\ lv_async' = lv_async
                      /\ s_turnouts' = s_turnouts /\ s_count' = s_count
                      /\ loc' = loc
        /\ (pc["net"] # "re_disc" /\ IsHandlerStep /\ pc'["net"] # "idle")
           => rx'.disc = rx.disc
        /\ rx'.disc # << >> => rx'.idx = -1 ]_vars

\* The callback has been invoked for an event no turnout has, with a
\* turnout registered.
C15_Witness ==
    /\ pc["net"] = "ret"
    /\ rx.disc = <<rx.event>>
    /\ s_count > 0
    /\ \A i \in Live : rx.event \notin IdsOf(s_turnouts[i])

\* C20: turnout_manager_find_by_event(e) returns -1 exactly when no live
\* turnout has e as its normal or reverse id, and otherwise an index below
\* the count whose turnout has e, on every table add, remove and swap
\* produce.
C20_FindByEvent ==
    [][ (pc["net"] = "re_find" /\ IsHandlerStep)
        => /\ rx'.idx = -1
              <=> \A i \in Live : rx.event \notin IdsOf(s_turnouts[i])
           /\ rx'.idx # -1
              => /\ rx'.idx \in Live
                 /\ rx.event \in IdsOf(s_turnouts[rx'.idx]) ]_vars

\* The lookup has returned index 1 for an id the second of two turnouts has
\* and the first has not.
C20_Witness ==
    /\ pc["net"] = "re_get"
    /\ s_count = 2
    /\ rx.idx = 1
    /\ rx.event \in IdsOf(s_turnouts[1])
    /\ rx.event \notin IdsOf(s_turnouts[0])


\* C18: no step of the executor reads or writes the layout: a step of the
\* handler leaves the layout and the panel file alone and at most appends
\* one call to the queue of deferred calls, and every access to the layout
\* is made by the LVGL task.
C18_LayoutOnUiThreadOnly ==
    [][ /\ IsHandlerStep
           => /\ s_layout' = s_layout
              /\ layout_access' = layout_access
              /\ fs' = fs
              /\ \/ lv_async' = lv_async
                 \/ \E call \in {lv_async'[Len(lv_async')]} :
                       lv_async' = Append(lv_async, call)
        /\ layout_access' \in {"none", "ui"}
        /\ s_layout' # s_layout => layout_access' = "ui" ]_vars

\* The executor has queued the notification of a state change while an
\* item is placed and the LVGL task has touched the layout.
C18_Witness ==
    /\ pc["net"] = "ret"
    /\ loc["net"].cbs # << >>
    /\ lv_async # << >>
    /\ Head(lv_async).fn = "ui_turnouts_update_tile_async"
    /\ item_count > 0
    /\ layout_access = "ui"


\* C19: every read builder_refresh_canvas makes through the pointer
\* turnout_manager_get_all returned happens while the caller holds the
\* registry mutex: the pointer is obtained and read only between lock and
\* unlock, and no read follows the unlock.
C19_ReadsUnderLock ==
    [][ /\ Len(br'.reads) > Len(br.reads) => (s_mutex = "ui" /\ br.turnouts)
        /\ br'.turnouts => s_mutex' = "ui"
        /\ \A k \in 1..Len(br'.reads) : br'.reads[k].held ]_vars

\* The snapshot has read the table for two placed items while the executor
\* waits for the mutex to report an event.
C19_Witness ==
    /\ pc["ui"] = "br_loop"
    /\ Len(br.reads) = 2
    /\ s_count > 0
    /\ pc["net"] = "ssbe_take"


\* The positions in the record of a query at which the message for one id
\* of one turnout was sent.
QuerySends(pair, role) ==
    {k \in 1..Len(qa.out) :
        /\ qa.out[k].kind = "identify"
        /\ qa.out[k].of = pair
        /\ qa.out[k].role = role}

\* C16: when lcc_node_query_all_turnout_states returns, every turnout that
\* was registered for the whole call has been sent exactly one query for
\* its normal id followed by exactly one for its reverse id, and a pace
\* delay follows every query, whatever add, remove and swap the UI task ran
\* meanwhile.
C16_QueryEachTurnoutOnce ==
    qa.pc = "ret" /\ qa.pace_ms > 0
    => /\ \A pair \in qa.stayed :
             /\ Cardinality(QuerySends(pair, "normal")) = 1
             /\ Cardinality(QuerySends(pair, "reverse")) = 1
             /\ \A n \in QuerySends(pair, "normal"), r \in QuerySends(pair, "reverse") :
                   n < r
       /\ \A k \in 1..Len(qa.out) :
             qa.out[k].kind = "identify"
             => /\ k < Len(qa.out)
                /\ qa.out[k + 1].kind = "delay"
                /\ qa.out[k + 1].ms > 0


\* C17: with a nonzero stale timeout a turnout that is Normal or Reverse and
\* receives no further event becomes Stale: a sweep every timeout marks it
\* by the time its last update is two timeouts old, so at the top of the
\* main loop no Normal or Reverse turnout is older than that.
C17_StaleAfterTimeout ==
    (ml.stale_timeout > 0 /\ ml.pc = "top" /\ qa.pc = "idle")
    => \A i \in Live :
          (/\ s_turnouts[i].state \in {TURNOUT_STATE_NORMAL, TURNOUT_STATE_REVERSE}
           /\ s_turnouts[i].last_update_us > 0)
          => now_us - s_turnouts[i].last_update_us
                <= 2 * ml.stale_timeout * TickUs

\* C21: turnout_manager_add returns -1 and leaves the table and the count
\* unchanged whenever the table holds TURNOUT_MAX_COUNT turnouts or either
\* given id is already the normal or reverse id of a live turnout; the count
\* never exceeds TURNOUT_MAX_COUNT.
C21_AddRejectsFullOrDuplicate ==
    [][ /\ \A en \in Events, er \in Events, n \in AddNames :
              (/\ turnout_manager_add("ui", en, er, n)
               /\ \/ s_count >= TURNOUT_MAX_COUNT
                  \/ \E i \in Live : {en, er} \cap IdsOf(s_turnouts[i]) # {})
              => /\ turnout_manager_add_ret(en, er) = -1
                 /\ s_turnouts' = s_turnouts
                 /\ s_count' = s_count
        /\ s_count' <= TURNOUT_MAX_COUNT ]_vars

\* C22: add_item, add_endpoint and add_track on a full collection return
\* failure and leave the whole layout, next_endpoint_id included, as it was;
\* the three counts never exceed their capacities.  (On a full collection
\* the step of add_track is the same for every track given, so the first
\* stored track stands for all.)
C22_AddOnFullRejected ==
    [][ /\ item_count >= PANEL_MAX_ITEMS
           => \A id \in ItemIds, x \in GridXs, y \in GridYs :
                 panel_layout_add_item(id, x, y)
                 => (panel_layout_add_item_ret = -1 /\ s_layout' = s_layout)
        /\ endpoint_count >= PANEL_MAX_ENDPOINTS
           => \A x \in GridXs, y \in GridYs :
                 panel_layout_add_endpoint(x, y)
                 => (~ panel_layout_add_endpoint_ret /\ s_layout' = s_layout)
        /\ track_count >= PANEL_MAX_TRACKS
           => (panel_layout_add_track(s_layout.tracks[1])
                 => (~ panel_layout_add_track_ret /\ s_layout' = s_layout))
        /\ Len(s_layout'.items) <= PANEL_MAX_ITEMS
        /\ Len(s_layout'.endpoints) <= PANEL_MAX_ENDPOINTS
        /\ Len(s_layout'.tracks) <= PANEL_MAX_TRACKS ]_vars

\* All three collections are full, after an endpoint was removed and placed
\* again.
C22_Witness ==
    /\ item_count = PANEL_MAX_ITEMS
    /\ endpoint_count = PANEL_MAX_ENDPOINTS
    /\ track_count = PANEL_MAX_TRACKS
    /\ s_layout.next_endpoint_id > PANEL_MAX_ENDPOINTS

\* ------------------------------------------------------------------------
\* Properties of track resolution
\* ------------------------------------------------------------------------
\* One end resolved without the cache: the scan from index 0 that uses the
\* first item whose turnout_id matches.
ScanResolveEnd(layout, ref) ==
    IF ItemsWithId(layout, ref.id) = {}
    THEN [ok |-> FALSE, xy |-> <<0, 0>>]
    ELSE [ok |-> TRUE,
          xy |-> panel_geometry_get_connection_point(
                    layout.items[FirstOf(ItemsWithId(layout, ref.id)) + 1], ref.point)]

\* C23: on every layout reached by item additions and removals interleaved
\* with resolve calls, panel_layout_resolve_track returns the success flag
\* and the coordinates of the cache-free resolution.
C23_CacheAgreesWithScan ==
    [][ \A f \in ResolveRefs, t \in ResolveRefs :
          panel_layout_resolve_track([from |-> f, to |-> t])
          => /\ resolved'.ret = (ScanResolveEnd(s_layout, f).ok
                                   /\ ScanResolveEnd(s_layout, t).ok)
             /\ resolved'.from_ok = ScanResolveEnd(s_layout, f).ok
             /\ resolved'.from_xy = ScanResolveEnd(s_layout, f).xy
             /\ resolved'.to_ok = ScanResolveEnd(s_layout, t).ok
             /\ resolved'.to_xy = ScanResolveEnd(s_layout, t).xy ]_vars

WithoutFile(files, path) == [files EXCEPT ![path] = NoFile]

\* C25: for both stores, loading a complete file whose version field is
\* not a supported version (1 or 2 for the layout, 1 for the roster) gives
\* the result of loading a missing file: an empty model, none of the
\* file's entries taken.
C25_UnknownVersionAsMissing ==
    [][IsLoadStep =>
        /\ (fs[PANEL_STORAGE_PATH].complete
               /\ fs[PANEL_STORAGE_PATH].data[1].version \notin {1, 2}) =>
              s_layout' = LayoutOfFile(NoFile)
        /\ (fs[TURNOUT_STORAGE_PATH].complete
               /\ fs[TURNOUT_STORAGE_PATH].data[1].version # 1) =>
              /\ s_count' = InitImported(WithoutFile(fs, TURNOUT_STORAGE_PATH)).count
              /\ s_turnouts' = InitImported(WithoutFile(fs, TURNOUT_STORAGE_PATH)).tab
      ]_vars

\* The two event ids of a block of the external roster file.
BlockIds(b) == {b.ev1, b.ev2}

\* C26: the import appends a block only if neither of its event ids is an
\* event id of a turnout already in the table, the turnouts appended
\* earlier in the same import included, and never grows the table beyond
\* max_count; the turnouts that were in the table, and every slot the
\* import did not fill, are unchanged.
C26_ImportSkipsKnownEvents ==
    [][IsLoadStep =>
        LET before == InitLoaded(fs)
            blocks == fs[TURNOUT_JMRI_IMPORT_PATH].data
        IN /\ before.count <= s_count' /\ s_count' <= TURNOUT_MAX_COUNT
           /\ s_count' - before.count <= Len(blocks)
           /\ \A k \in Slots :
                 (k < before.count \/ k >= s_count') => s_turnouts'[k] = before.tab[k]
           /\ \A k \in before.count..(s_count' - 1) :
                 /\ \A j \in 0..(k - 1) :
                       IdsOf(s_turnouts'[k]) \cap IdsOf(s_turnouts'[j]) = {}
                 /\ \E b \in 1..Len(blocks) :
                       /\ blocks[b].sys_name_ok
                       /\ BlockIds(blocks[b]) = IdsOf(s_turnouts'[k])
      ]_vars

\* The start-up loaded "A" (events 1 and 2) and imported a two-block file:
\* the first block shares an event id with "A" in the other role and was
\* skipped, the second was appended and filled the table.
C26_Witness ==
    /\ pc["ui"] = "ret" /\ sloc.op = "boot"
    /\ Len(fs[TURNOUT_JMRI_IMPORT_PATH].data) = 2
    /\ fs[TURNOUT_JMRI_IMPORT_PATH].data[1].sys_name_ok
    /\ fs[TURNOUT_JMRI_IMPORT_PATH].data[1].ev1 = 2
    /\ fs[TURNOUT_JMRI_IMPORT_PATH].data[1].ev2 = MaxEvent + 1
    /\ ~ fs[TURNOUT_JMRI_IMPORT_PATH].data[1].inverted
    /\ s_count = TURNOUT_MAX_COUNT
    /\ s_turnouts[0].name = "A"
    /\ IdsOf(s_turnouts[1]) = {MaxEvent + 1}

\* Both stores have been loaded by app_main.
BothLoaded == am.loaded = {"roster", "layout"}

\* C27: the roster load (import included) and the layout load have both
\* completed whenever a state-changed or discovery callback is registered,
\* the node has left LCC_STATUS_UNINITIALIZED, the executor thread exists,
\* the UI exists, or an event is being routed to the registry.
C27_LoadsBeforeCallbacksNodeAndUi ==
    /\ s_state_callback => BothLoaded
    /\ s_discovery_callback => BothLoaded
    /\ (s_status # "UNINITIALIZED" \/ lcc_exec) => BothLoaded
    /\ ui_created => BothLoaded
    /\ pc["net"] # "idle" => BothLoaded

\* The start-up has reached the main loop with the UI created and the node
\* running, after loading a roster of two turnouts (one of them imported)
\* and a layout with an item; an event is being delivered to the callback.
C27_Witness ==
    /\ am.pc = "main_loop" /\ ui_created /\ s_status = "RUNNING"
    /\ s_count = 2 /\ s_turnouts[1].name = "J"
    /\ s_layout = RtSampleLayout
    /\ pc["net"] = "ssbe_cb" /\ s_state_callback

\* ------------------------------------------------------------------------
\* Properties of the stale sweep
\* ------------------------------------------------------------------------
\* A step of turnout_manager_check_stale on the executor.
IsSweepStep ==
    /\ loc'["net"].op = "cs"
    /\ (pc'["net"] # pc["net"] \/ loc'["net"] # loc["net"])

\* C28: check_stale(0) returns at once, changing nothing and invoking no
\* callback; a sweep with a nonzero timeout changes nothing but the state
\* field of a turnout, and not that of a turnout that is Unknown or Stale,
\* has last_update 0, or was updated no longer ago than the timeout; the
\* count and the positions are unchanged.
C28_SweepFrame ==
    [][IsSweepStep =>
        /\ s_count' = s_count
        /\ \A k \in Slots :
              /\ [s_turnouts'[k] EXCEPT !.state = s_turnouts[k].state] = s_turnouts[k]
              /\ ( \/ s_turnouts[k].state \in {TURNOUT_STATE_UNKNOWN, TURNOUT_STATE_STALE}
                   \/ s_turnouts[k].last_update_us = 0
                   \/ now_us - s_turnouts[k].last_update_us
                         <= loc'["net"].timeout_ms * 1000 )
                 => s_turnouts'[k] = s_turnouts[k]
        /\ loc'["net"].timeout_ms = 0 =>
              /\ s_turnouts' = s_turnouts
              /\ loc'["net"].cbs = << >>
              /\ pc'["net"] = "ret"
              /\ s_mutex' = s_mutex
      ]_vars

\* A sweep with a nonzero timeout has returned after marking the first
\* turnout Stale, with one callback, and leaving the second, updated
\* within the timeout, as it was.
C28_Witness ==
    /\ pc["net"] = "ret" /\ loc["net"].op = "cs" /\ loc["net"].timeout_ms > 0
    /\ s_count = 2
    /\ s_turnouts[0].state = TURNOUT_STATE_STALE
    /\ s_turnouts[1].state \in {TURNOUT_STATE_NORMAL, TURNOUT_STATE_REVERSE}
    /\ s_turnouts[1].last_update_us = now_us
    /\ Len(loc["net"].cbs) = 1

\* ------------------------------------------------------------------------
\* Properties of the registry mutex
\* ------------------------------------------------------------------------
\* Positions at which a thread holds the mutex; none of them waits.
HoldingPcs == {"cs_loop", "ssbe_cb_in", "cs_cb_in", "br_get_all", "br_loop",
               "br_unlock"}

\* C29: a thread that is outside the registry or has returned from an
\* operation (success, invalid index, duplicate, full, no match) does not
\* hold the mutex; a callback about to call back into the registry, from
\* set_state_by_event or from check_stale, is never the holder itself, and
\* whoever holds the mutex is inside a critical section it leaves without
\* waiting, so the call is not blocked for ever.
C29_MutexReleasedOnReturn ==
    /\ \A t \in Threads : pc[t] \in {"idle", "ret"} => s_mutex # t
    /\ \A t \in Threads : pc[t] \in {"ssbe_cb", "cs_cb"} => s_mutex # t
    /\ s_mutex \in Threads => pc[s_mutex] \in HoldingPcs
    /\ \A t \in Threads : pc[t] \in {"ssbe_cb_in", "cs_cb_in"} => s_mutex = t

\* The callback invoked by the sweep for the turnout it marked Stale is
\* inside its registry call, holding the mutex, while the UI task waits in
\* turnout_manager_lock.
C29_Witness ==
    /\ pc["net"] = "cs_cb_in" /\ s_mutex = "net"
    /\ pc["ui"] = "br_lock"
    /\ s_count = 1
    /\ s_turnouts[0].state = TURNOUT_STATE_STALE

\* ------------------------------------------------------------------------
\* Properties of the symbol geometry at every rotation
\* ------------------------------------------------------------------------
\* Cosine and sine of rotation index r (45 degree steps) scaled by 1024;
\* the sine is the cosine a quarter turn earlier.
Cos1024(r) == <<1024, 724, 0, -724, -1024, -724, 0, 724>>[(r % 8) + 1]
Sin1024(r) == Cos1024(r + 6)

\* a / 1024 truncated toward zero: the integer of largest magnitude whose
\* product with 1024 lies between 0 and a.
Quot1024(a) ==
    CHOOSE q \in -64..64 :
        IF a >= 0 THEN q * 1024 <= a /\ a < (q + 1) * 1024
        ELSE q * 1024 >= a /\ a > (q - 1) * 1024

\* The offset (dx, dy), with dy negated when mirrored, rotated by r and
\* added to the origin of the item.
ExpectedPoint(item, dx, dy) ==
    LET my == IF item.mirrored THEN -dy ELSE dy
        r == item.rotation
    IN << item.grid_x * 20 + Quot1024(dx * Cos1024(r) - my * Sin1024(r)),
          item.grid_y * 20 + Quot1024(dx * Sin1024(r) + my * Cos1024(r)) >>

\* C30: for every rotation 0..7 and both mirror values, the entry point is
\* the origin (grid_x * 20, grid_y * 20) and the normal and reverse points
\* are the origin plus the local offset, (60, 0) and (40, -40) with the Y
\* component negated first when mirrored, rotated with the table scaled by
\* 1024, each division by 1024 truncating toward zero.
C30_PointsAtEveryRotation ==
    geo.valid =>
        LET item == s_layout.items[1]
        IN /\ geo.entry = <<item.grid_x * 20, item.grid_y * 20>>
           /\ geo.normal = ExpectedPoint(item, 60, 0)
           /\ geo.reverse = ExpectedPoint(item, 40, -40)

\* The points of a mirrored item of rotation 3 (135 degrees) were computed:
\* the normal exit lies 42 left of and 42 below the origin, both quotients
\* of -43440 and 43440 by 1024 truncated toward zero, and the reverse exit
\* 56 left of it on the same row.
C30_Witness ==
    /\ geo.valid
    /\ s_layout.items[1].rotation = 3 /\ s_layout.items[1].mirrored
    /\ geo.normal = <<s_layout.items[1].grid_x * 20 - 42,
                      s_layout.items[1].grid_y * 20 + 42>>
    /\ geo.reverse = <<s_layout.items[1].grid_x * 20 - 56,
                       s_layout.items[1].grid_y * 20>>

C32_RoutedStateFollowsOwnId ==
    [][(IsScanStep("net") /\ rx.event = loc["net"].event_id) =>
          \A k \in Slots :
              s_turnouts'[k] # s_turnouts[k] =>
                  /\ k < s_count
                  /\ rx.event \in IdsOf(s_turnouts[k])
                  /\ s_turnouts'[k].event_normal = s_turnouts[k].event_normal
                  /\ s_turnouts'[k].event_reverse = s_turnouts[k].event_reverse
                  /\ rx.event = s_turnouts[k].event_normal =>
                        s_turnouts'[k].state = TURNOUT_STATE_NORMAL
                  /\ rx.event # s_turnouts[k].event_normal =>
                        s_turnouts'[k].state = TURNOUT_STATE_REVERSE
      ]_vars

\* The router found event 2 at index 1, the UI task swapped the two
\* turnouts before set_state_by_event ran, and the scan set the turnout now
\* at index 0, whose event_normal is 2, to Normal; the other turnout, which
\* the stale index now names, is still Unknown.
C32_Witness ==
    /\ pc["net"] = "ssbe_cb"
    /\ rx.event = 2 /\ rx.idx = 1 /\ loc["net"].i = 0
    /\ s_count = 2
    /\ s_turnouts[0].event_normal = 2
    /\ s_turnouts[0].state = TURNOUT_STATE_NORMAL
    /\ s_turnouts[1].state = TURNOUT_STATE_UNKNOWN
    /\ 2 \notin IdsOf(s_turnouts[1])

\* C33: when the LVGL task runs a queued ui_turnouts_update_tile_async and
\* ui_panel_update_turnout reads the registry at the queued index, the
\* turnout it finds there is the one whose state was changed.  A turnout
\* whose state was changed is never Unknown again, so the turnout read at
\* the queued index is not in state Unknown.
C33_QueuedIndexNamesChangedTurnout ==
    [][\A t \in Threads :
          (/\ lv_async_run(t)
           /\ Head(lv_async).fn = "ui_turnouts_update_tile_async"
           /\ Head(lv_async).index < s_count) =>
              s_turnouts[Head(lv_async).index].state # TURNOUT_STATE_UNKNOWN
      ]_vars

\* C34: a stale sweep examines every turnout that is in the table for the
\* whole duration of the sweep, also when the other thread removes or swaps
\* while the sweep has released the mutex around a callback.  Timestamps
\* are written by the sweeping thread only and a new entry starts with
\* last_update 0, so a live turnout that still meets the sweep's own test
\* when the sweep has returned was in the table throughout and was never
\* examined: there is none.
C34_SweepExaminesEveryTurnout ==
    (pc["net"] = "ret" /\ loc["net"].op = "cs" /\ loc["net"].timeout_ms > 0) =>
        \A k \in Slots :
            k < s_count =>
                ~ IsStaleNow(s_turnouts[k], loc["net"].now, loc["net"].timeout_ms)

\* ------------------------------------------------------------------------
\* Properties of the state and pending fields
\* ------------------------------------------------------------------------
\* The live entries of a table whose event_normal is e (at most one: add
\* rejects a second one).
LiveByNormal(tab, cnt, e) ==
    {tab[k] : k \in {j \in Slots : j < cnt /\ tab[j].event_normal = e}}

\* C35: with a clock that is always positive a live turnout is Unknown
\* exactly when its last_update is 0; no step takes a turnout that stays in
\* the table from another state back to Unknown, wherever remove and swap
\* move it; and a turnout becomes Stale only from Normal or Reverse and
\* only in a step of check_stale's loop.
C35_UnknownIffNeverUpdated ==
    /\ [](\A k \in Slots :
            k < s_count =>
                (s_turnouts[k].state = TURNOUT_STATE_UNKNOWN
                    <=> s_turnouts[k].last_update_us = 0))
    /\ [][\A e \in Events :
            \A old \in LiveByNormal(s_turnouts, s_count, e) :
                \A new \in LiveByNormal(s_turnouts', s_count', e) :
                    /\ old.state # TURNOUT_STATE_UNKNOWN =>
                          new.state # TURNOUT_STATE_UNKNOWN
                    /\ (new.state = TURNOUT_STATE_STALE
                          /\ old.state # TURNOUT_STATE_STALE) =>
                          /\ old.state \in {TURNOUT_STATE_NORMAL,
                                             TURNOUT_STATE_REVERSE}
                          /\ pc["net"] = "cs_loop"
                          /\ loc["net"].op = "cs"
       ]_vars

\* A sweep has marked one turnout Stale and the UI has swapped it to index
\* 1 since; the other turnout was never updated and is Unknown.
C35_Witness ==
    /\ s_count = 2
    /\ s_turnouts[1].state = TURNOUT_STATE_STALE
    /\ s_turnouts[1].last_update_us > 0
    /\ s_turnouts[1].user_order = 0
    /\ s_turnouts[0].state = TURNOUT_STATE_UNKNOWN
    /\ s_turnouts[0].last_update_us = 0

\* C36: a turnout's command_pending, once true, stays true while the
\* turnout is in the table until set_state_by_event updates it for one of
\* its ids or set_pending(index, false) is called on its index; the sweep,
\* rename, swap and updates of other turnouts leave it, wherever the
\* turnout moves; and set_pending with an index at or above the count
\* changes nothing.
C36_PendingStaysUntilCleared ==
    [][/\ \A k \in Slots, k2 \in Slots :
            (/\ k < s_count /\ k2 < s_count'
             /\ s_turnouts'[k2].event_normal = s_turnouts[k].event_normal
             /\ s_turnouts[k].command_pending
             /\ ~ s_turnouts'[k2].command_pending) =>
                \/ /\ pc["net"] = "ssbe_take" /\ pc'["net"] = "ssbe_cb"
                   /\ loc["net"].event_id \in IdsOf(s_turnouts[k])
                   /\ loc'["net"].i = k /\ k2 = k
                \/ /\ pc' = pc /\ loc' = loc /\ k2 = k
                   /\ s_turnouts' =
                         [s_turnouts EXCEPT ![k].command_pending = FALSE]
       /\ \A i \in Slots, p \in BOOLEAN :
            (i >= s_count /\ turnout_manager_set_pending("ui", i, p)) =>
                s_turnouts' = s_turnouts
      ]_vars

\* A turnout whose command is pending has been renamed, marked Stale by a
\* sweep and swapped to index 1, and is still pending; the other turnout
\* has been updated by an event.
C36_Witness ==
    /\ s_count = 2
    /\ s_turnouts[1].command_pending
    /\ s_turnouts[1].user_order = 0
    /\ s_turnouts[1].name = "A"
    /\ s_turnouts[1].state = TURNOUT_STATE_STALE
    /\ s_turnouts[0].state \in {TURNOUT_STATE_NORMAL, TURNOUT_STATE_REVERSE}
    /\ ~ s_turnouts[0].command_pending

\* ------------------------------------------------------------------------
\* Properties of the endpoint ids
\* ------------------------------------------------------------------------
\* C37: from the empty layout, and from every layout loaded from a file
\* that panel_storage_save wrote, the live endpoints have pairwise distinct
\* ids, all below next_endpoint_id; in every step other than the load
\* next_endpoint_id does not decrease and an endpoint that appears gets the
\* value the counter had.  An id once assigned is therefore below the
\* counter from then on, and never the id of a later endpoint.
C37_EndpointIdsNeverReused ==
    /\ [](/\ \A a \in 1..endpoint_count, b \in 1..endpoint_count :
                a # b => s_layout.endpoints[a].id # s_layout.endpoints[b].id
          /\ \A a \in 1..endpoint_count :
                s_layout.endpoints[a].id < s_layout.next_endpoint_id)
    /\ [][pc["ui"] # "boot" =>
            /\ s_layout'.next_endpoint_id >= s_layout.next_endpoint_id
            /\ Len(s_layout'.endpoints) > Len(s_layout.endpoints) =>
                  /\ s_layout'.endpoints[Len(s_layout'.endpoints)].id
                        = s_layout.next_endpoint_id
                  /\ s_layout'.next_endpoint_id > s_layout.next_endpoint_id
       ]_vars

\* Endpoints 0 and 1 were added and saved; then endpoint 0 was removed and
\* a third endpoint added, which got id 2 and not the freed id 0.
C37_Witness ==
    /\ pc["ui"] = "idle"
    /\ fs[PANEL_STORAGE_PATH].exists /\ fs[PANEL_STORAGE_PATH].complete
    /\ fs[PANEL_STORAGE_PATH].data[1].next_endpoint_id = 2
    /\ Len(s_layout.endpoints) = 2
    /\ s_layout.endpoints[1].id = 1
    /\ s_layout.endpoints[2].id = 2
    /\ s_layout.next_endpoint_id = 3

\* ------------------------------------------------------------------------
\* Symmetries of the symbol geometry
\* ------------------------------------------------------------------------
\* Offset of a point from the entry point.
OffsetFrom(entry, p) == <<p[1] - entry[1], p[2] - entry[2]>>

\* C38: the entry point of the item whose points were computed is
\* (grid_x * 20, grid_y * 20) whatever its rotation and mirror; the same
\* item with the mirror toggled has the same entry and normal points; and
\* the same item turned by four more rotation steps (modulo 8) has the
\* same entry point and exactly the negated offsets of the normal and of
\* the reverse point from it.
C38_MirrorAndHalfTurn ==
    geo.valid =>
        LET item == s_layout.items[1]
            flipped == panel_geometry_get_points([item EXCEPT !.mirrored = ~ @])
            turned == panel_geometry_get_points(
                          [item EXCEPT !.rotation = (@ + 4) % 8])
        IN /\ geo.entry = <<item.grid_x * 20, item.grid_y * 20>>
           /\ flipped.entry = geo.entry
           /\ turned.entry = geo.entry
           /\ flipped.normal = geo.normal
           /\ OffsetFrom(turned.entry, turned.normal)
                 = <<- OffsetFrom(geo.entry, geo.normal)[1],
                     - OffsetFrom(geo.entry, geo.normal)[2]>>
           /\ OffsetFrom(turned.entry, turned.reverse)
                 = <<- OffsetFrom(geo.entry, geo.reverse)[1],
                     - OffsetFrom(geo.entry, geo.reverse)[2]>>

\* The points of a mirrored item of rotation 5 (225 degrees) were computed:
\* its normal exit lies 42 left of and 42 above the entry, the opposite of
\* the (42, 42) of rotation 1, and its reverse exit 56 straight above.
C38_Witness ==
    /\ geo.valid
    /\ s_layout.items[1].rotation = 5 /\ s_layout.items[1].mirrored
    /\ s_layout.items[1].grid_x > 0 /\ s_layout.items[1].grid_y > 0
    /\ OffsetFrom(geo.entry, geo.normal) = <<-42, -42>>
    /\ OffsetFrom(geo.entry, geo.reverse) = <<0, -56>>

C40_DeleteRemovesPlacedItem ==
    [][\A i \in Slots :
          (i < s_count /\ delete_confirm_btn_cb("ui", i)) =>
              /\ \A k \in 1..Len(s_layout'.items) :
                    s_layout'.items[k].turnout_id # s_turnouts[i].id
              /\ \A k \in 1..Len(s_layout'.tracks) :
                    ~ TrackRefs(s_layout'.tracks[k], PANEL_REF_TURNOUT,
                                s_turnouts[i].id)
      ]_vars

====
